---- MODULE Spec2Model ----
(***************************************************************************)
(* DateIntervalCycler: a cursor over the date intervals cut out of the     *)
(* calendar by a yearly cycle of (month, day) points.                      *)
(*                                                                         *)
(* Dates are <<year, month, day>> triples (datetime at midnight), cycle    *)
(* points are <<month, day>> pairs.  Cycle indexes (p, p0, p_feb_29) are   *)
(* 0-based as in the source; the TLA+ sequence `cycles` is 1-based, so     *)
(* cycles[p] of the source is cycles_at(self, p) here.                     *)
(***************************************************************************)
EXTENDS Integers, Sequences, FiniteSets, TLC

FEB28 == <<2, 28>>
FEB29 == <<2, 29>>
NUL == <<1, 1, 1>>
MAX_INTERVAL == 2000000000

\* None for an optional date (last_interval_end).
NoDate == <<0, 0, 0>>
\* The value of a date expression that raises (IndexError / RuntimeError).
DateRaise == <<-1, -1, -1>>
\* cycles[p] raising IndexError.
IndexRaise == <<-1, -1>>
\* The value of an integer expression that raises.
IntRaise == 0 - 1000000

month_days_29 == <<31, 29, 31, 30, 31, 30, 31, 31, 30, 31, 30, 31>>
month_days_28 == <<31, 28, 31, 30, 31, 30, 31, 31, 30, 31, 30, 31>>

is_leap(year) == year % 4 = 0 /\ (year % 100 # 0 \/ year % 400 = 0)

----------------------------------------------------------------------------
(* datetime: comparison, construction, one-day arithmetic *)

DateLT(a, b) ==
    \/ a[1] < b[1]
    \/ a[1] = b[1] /\ a[2] < b[2]
    \/ a[1] = b[1] /\ a[2] = b[2] /\ a[3] < b[3]

DateLE(a, b) == a = b \/ DateLT(a, b)

\* dt.datetime(y, *md)
Datetime(y, md) == IF md = IndexRaise THEN DateRaise ELSE <<y, md[1], md[2]>>

DaysInMonth(y, m) == IF is_leap(y) THEN month_days_29[m] ELSE month_days_28[m]

\* date + timedelta(days=-1)
PrevDay(date) ==
    IF date[3] > 1 THEN <<date[1], date[2], date[3] - 1>>
    ELSE IF date[2] > 1 THEN <<date[1], date[2] - 1, DaysInMonth(date[1], date[2] - 1)>>
    ELSE <<date[1] - 1, 12, 31>>

\* date + timedelta(days=1)
NextDay(date) ==
    IF date[3] < DaysInMonth(date[1], date[2]) THEN <<date[1], date[2], date[3] + 1>>
    ELSE IF date[2] < 12 THEN <<date[1], date[2] + 1, 1>>
    ELSE <<date[1] + 1, 1, 1>>

----------------------------------------------------------------------------
(* cycle points *)

PointLT(a, b) == a[1] < b[1] \/ (a[1] = b[1] /\ a[2] < b[2])

\* tuple(sorted(set(...))): the ascending duplicate-free sequence of a list;
\* each point is placed by the number of points below it
SortedSeq(S) ==
    LET ranked == {<<Cardinality({z \in S : PointLT(z, x)}) + 1, x>> : x \in S}
    IN [i \in 1..Cardinality(S) |-> (CHOOSE pr \in ranked : pr[1] = i)[2]]

intervals_to_array(cyclesIn) == SortedSeq({cyclesIn[i] : i \in 1..Len(cyclesIn)})

\* self.cycles[p] with Python's indexing: negative p counts from the end
cycles_at(self, p) ==
    LET n == Len(self.cycles)
    IN IF 0 <= p /\ p < n THEN self.cycles[p + 1]
       ELSE IF -n <= p /\ p < 0 THEN self.cycles[n + p + 1]
       ELSE IndexRaise

\* self.cycles.index(FEB29)
IndexOf(seq, x) == (CHOOSE i \in 1..Len(seq) : seq[i] = x /\ \A j \in 1..(i - 1) : seq[j] # x) - 1

InSeq(seq, x) == \E i \in 1..Len(seq) : seq[i] = x

----------------------------------------------------------------------------
(* internal date helpers of the cycler `self` (a record of its fields) *)

\* _to_datetime(p, y, feb29_move_next_fix)
RECURSIVE to_datetime(_, _, _, _)
to_datetime(self, p, y, feb29_move_next_fix) ==
    IF p > self.dim THEN DateRaise
    ELSE IF p # self.p_feb_29 \/ is_leap(y) THEN
        IF p < self.dim THEN Datetime(y, cycles_at(self, p))
        ELSE to_datetime(self, 0, y + 1, feb29_move_next_fix)
    ELSE IF ~self.end_of_feb_check_has_28 THEN <<y, 2, 28>>
    ELSE IF feb29_move_next_fix THEN to_datetime(self, p + 1, y, feb29_move_next_fix)
    ELSE to_datetime(self, p - 1, y, feb29_move_next_fix)

\* _get_end_of_feb_check_date with the fall-back to Feb 28 dropped: a (2, 29)
\* in a non-leap year is always passed over, as if (2, 28) were a cycle point
RECURSIVE get_end_of_feb_check_date_no_fallback(_, _)
get_end_of_feb_check_date_no_fallback(self, p) ==
    IF p < 0 \/ p > self.dim THEN DateRaise
    ELSE LET y  == IF p = self.dim THEN self.y + 1 ELSE self.y
             pp == IF p = self.dim THEN 0 ELSE p
             md == cycles_at(self, pp)
         IN IF self.end_of_feb_check /\ pp = self.p_feb_29 /\ ~is_leap(y)
            THEN get_end_of_feb_check_date_no_fallback(self, pp + 1)
            ELSE Datetime(y, md)

\* _get_end_of_feb_check_date(p): always relative to the cursor's year self.y
RECURSIVE get_end_of_feb_check_date(_, _)
get_end_of_feb_check_date(self, p) ==
    IF p < 0 \/ p > self.dim THEN DateRaise
    ELSE LET y  == IF p = self.dim THEN self.y + 1 ELSE self.y
             pp == IF p = self.dim THEN 0 ELSE p
             md == cycles_at(self, pp)
         IN IF self.end_of_feb_check /\ pp = self.p_feb_29 /\ ~is_leap(y) THEN
                IF self.end_of_feb_check_has_28
                THEN get_end_of_feb_check_date(self, pp + 1)
                ELSE Datetime(y, <<md[1], 28>>)
            ELSE Datetime(y, md)

\* property interval_start
interval_start(self) ==
    IF self.at_first_interval # 0 THEN self.first_start_date
    ELSE IF self.end_of_feb_check THEN get_end_of_feb_check_date(self, self.p)
    ELSE to_datetime(self, self.p, self.y, TRUE)

\* property interval_end
interval_end(self) ==
    IF self.at_last_interval # 0 THEN self.last_end_date
    ELSE IF self.at_first_interval # 0 THEN
        IF self.end_of_feb_check THEN get_end_of_feb_check_date(self, self.p)
        ELSE to_datetime(self, self.p, self.y, TRUE)
    ELSE IF self.end_of_feb_check THEN get_end_of_feb_check_date(self, self.p + 1)
    ELSE to_datetime(self, self.p + 1, self.y, TRUE)

\* property interval
interval(self) == <<interval_start(self), interval_end(self)>>

\* _p_next
p_next(self) ==
    IF self.p + 1 = self.dim THEN [self EXCEPT !.p = 0, !.y = self.y + 1]
    ELSE [self EXCEPT !.p = self.p + 1]

\* _p_back
p_back(self) ==
    IF self.p - 1 = -1 THEN [self EXCEPT !.p = self.dim - 1, !.y = self.y - 1]
    ELSE [self EXCEPT !.p = self.p - 1]

----------------------------------------------------------------------------
(* date -> index *)

\* the counting loops of index_from_date: for i in range(lo, hi), stop at the
\* first cycle point after (vm, vd), count the others.  `strict` is the month
\* test of the loop (vm == m in the Feb-28/29 variant, vm <= m in the plain
\* one); `skip29` skips index p_feb_29 without counting it.
count_cycles(self, lo, hi, vm, vd, strict, skip29) ==
    LET live(i)   == ~(skip29 /\ i = self.p_feb_29)
        breaks(i) == LET md == cycles_at(self, i)
                     IN \/ md = IndexRaise
                        \/ vm < md[1]
                        \/ (IF strict THEN vm = md[1] ELSE vm <= md[1]) /\ vd < md[2]
        stops     == {i \in lo..(hi - 1) : live(i) /\ breaks(i)}
        stop      == IF stops = {} THEN hi ELSE CHOOSE i \in stops : \A j \in stops : i <= j
    IN IF stop < hi /\ cycles_at(self, stop) = IndexRaise THEN IntRaise
       ELSE Cardinality({i \in lo..(stop - 1) : live(i)})

\* _index_from_date_end_of_feb_check(date)
index_from_date_end_of_feb_check(self, date) ==
    LET at_end       == self.has_last_end_date /\ date = self.last_end_date
        dd           == IF at_end THEN PrevDay(date) ELSE date
        end_date_add == IF at_end THEN 1 ELSE 0
        sy           == self.first_start_date[1]
        vy           == dd[1]
        vm           == dd[2]
        vd           == dd[3]
        leap_year    == is_leap(sy)
        whole        == leap_year \/ self.p_feb_29 < self.p0
        RECURSIVE years(_)
        years(yy)    == IF yy >= vy THEN 0
                        ELSE (IF is_leap(yy) THEN self.dim ELSE self.dim - 1) + years(yy + 1)
        first_year   == IF whole THEN self.dim - self.p0 ELSE self.dim - self.p0 - 1
        in_year      == IF is_leap(vy)
                        THEN count_cycles(self, 0, Len(self.cycles), vm, vd, TRUE, FALSE)
                        ELSE count_cycles(self, 0, self.dim, vm, vd, TRUE, TRUE)
        in_first     == count_cycles(self, self.p0, self.dim, vm, vd, TRUE, ~whole)
    IN IF sy = vy
       THEN (IF in_first = IntRaise THEN IntRaise ELSE in_first + end_date_add)
       ELSE IF in_year = IntRaise THEN IntRaise
       ELSE first_year + years(sy + 1) + in_year + end_date_add

\* index_from_date(date)
index_from_date(self, date) ==
    IF DateLT(date, self.first_start_date) THEN -1
    ELSE IF self.has_last_end_date /\ DateLT(self.last_end_date, date) THEN -2
    ELSE IF self.at_first_interval # 0 /\ self.at_last_interval # 0 THEN 0
    ELSE IF DateLT(date, self.p0_date) THEN 0
    ELSE IF self.end_of_feb_check_has_28 THEN index_from_date_end_of_feb_check(self, date)
    ELSE LET at_end       == self.has_last_end_date /\ date = self.last_end_date
             dd           == IF at_end THEN PrevDay(date) ELSE date
             end_date_add == IF at_end THEN 1 ELSE 0
             sy           == self.first_start_date[1]
             vy           == dd[1]
             in_first     == count_cycles(self, self.p0, self.dim, dd[2], dd[3], FALSE, FALSE)
             in_year      == count_cycles(self, 0, self.dim, dd[2], dd[3], FALSE, FALSE)
         IN IF sy = vy
            THEN (IF in_first = IntRaise THEN IntRaise ELSE in_first + end_date_add)
            ELSE IF in_year = IntRaise THEN IntRaise
            ELSE (vy - sy - 1) * self.dim + self.dim - self.p0 + in_year + end_date_add

----------------------------------------------------------------------------
(* index -> interval *)

\* what index_to_interval returns: the pair, or one of its ends
Pick(start, end, only_start, only_end) ==
    IF only_start THEN start ELSE IF only_end THEN end ELSE <<start, end>>

\* _index_to_interval_return(p, y, only_start, only_end)
index_to_interval_return(self, p, y, only_start, only_end) ==
    Pick(to_datetime(self, p, y, TRUE), to_datetime(self, p + 1, y, TRUE), only_start, only_end)

\* _index_to_interval_end_of_feb_check(index, only_start, only_end)
index_to_interval_end_of_feb_check(self, index, only_start, only_end) ==
    LET y0        == self.first_start_date[1]
        leap_year == is_leap(y0)
        p         == index + self.p0 - 1
        whole     == leap_year \/ p < self.p_feb_29 \/ self.p_feb_29 < self.p0
        year_dim(y) == IF is_leap(y) THEN self.dim ELSE self.dim - 1
        \* the while loop: drop whole years from the index
        RECURSIVE walk(_, _)
        walk(ix, y) == IF ix >= year_dim(y) THEN walk(ix - year_dim(y), y + 1) ELSE <<ix, y>>
        rest      == IF whole THEN index - (self.dim - self.p0 + 1) ELSE index - (self.dim - self.p0)
        w         == walk(rest, y0 + 1)
    IN IF whole /\ p < self.dim
           THEN index_to_interval_return(self, p, y0, only_start, only_end)
       ELSE IF ~whole /\ index + self.p0 < self.dim
           THEN index_to_interval_return(self, index + self.p0, y0, only_start, only_end)
       ELSE IF is_leap(w[2]) \/ w[1] < self.p_feb_29
           THEN index_to_interval_return(self, w[1], w[2], only_start, only_end)
       ELSE index_to_interval_return(self, w[1] + 1, w[2], only_start, only_end)

\* index_to_interval(index, only_start, only_end)
index_to_interval(self, index, only_start0, only_end0) ==
    LET only_start == only_start0 /\ ~only_end0
        only_end   == only_end0 /\ ~only_start0
        \* the search of the last interval's start (index == len - 1)
        yL    == self.last_end_date[1]
        hits  == {q \in 0..(self.dim - 1) : DateLE(self.last_end_date, to_datetime(self, q, yL, TRUE))}
        pN0   == IF hits = {} THEN self.dim - 1
                 ELSE (CHOOSE q \in hits : \A r \in hits : q <= r) - 1
        pN    == IF pN0 < 0 THEN self.dim - 1 ELSE pN0
        yN    == IF pN0 < 0 THEN yL - 1 ELSE yL
        \* the plain walk over whole years
        y0    == self.first_start_date[1]
        rest  == index - (self.dim - self.p0 + 1)
    IN IF index < 0 \/ index > self.len
           THEN (IF only_start \/ only_end THEN NoDate ELSE <<NoDate, NoDate>>)
       ELSE IF index = 0
           THEN Pick(self.first_start_date, self.p0_date, only_start, only_end)
       ELSE IF index = self.len
           THEN Pick(self.last_end_date, self.last_end_date, only_start, only_end)
       ELSE IF index = self.len - 1
           THEN (IF only_end THEN self.last_end_date
                 ELSE Pick(to_datetime(self, pN, yN, TRUE), self.last_end_date, only_start, FALSE))
       ELSE IF self.end_of_feb_check_has_28
           THEN index_to_interval_end_of_feb_check(self, index, only_start, only_end)
       ELSE IF index + self.p0 - 1 < self.dim
           THEN index_to_interval_return(self, index + self.p0 - 1, y0, only_start, only_end)
       ELSE index_to_interval_return(self, rest % self.dim, y0 + 1 + (rest \div self.dim),
                                     only_start, only_end)

----------------------------------------------------------------------------
(* construction, reset and the two setters *)

\* reset without the guard that leaves a one-interval series untouched
reset_unguarded(self, start_before_first_interval, set_p0) ==
    LET y     == self.first_start_date[1]
        n     == Len(self.cycles)
        feb(i) == self.end_of_feb_check /\ i = self.p_feb_29 /\ ~is_leap(y)
        hit(i) == /\ ~(feb(i) /\ self.end_of_feb_check_has_28)
                  /\ DateLT(self.first_start_date,
                            <<y, self.cycles[i + 1][1], IF feb(i) THEN 28 ELSE self.cycles[i + 1][2]>>)
        found == {i \in 0..(n - 1) : hit(i)}
        new_p0 == IF found = {} THEN n ELSE CHOOSE i \in found : \A j \in found : i <= j
        s1    == [self EXCEPT !.y = y]
        s2    == IF set_p0
                 THEN [s1 EXCEPT !.p0 = new_p0, !.p0_date = to_datetime(s1, new_p0, y, TRUE)]
                 ELSE s1
        s3    == [s2 EXCEPT !.p = s2.p0, !.ind = 0]
    IN [s3 EXCEPT !.started_before_first_interval = start_before_first_interval,
                  !.at_first_interval = IF start_before_first_interval THEN -1 ELSE 1,
                  !.at_last_interval = 0]

\* reset that leaves the at-last flag as it finds it
reset_keeps_last_flag(self, start_before_first_interval, set_p0) ==
    LET r == reset_unguarded(self, start_before_first_interval, set_p0)
    IN IF ~(self.at_first_interval # 0 /\ self.at_last_interval # 0)
       THEN [r EXCEPT !.at_last_interval = self.at_last_interval]
       ELSE [self EXCEPT !.y = r.y, !.p = r.p, !.p0 = r.p0, !.p0_date = r.p0_date, !.ind = 0]

\* reset that takes a boundary equal to first_interval_start as the first end
reset_boundary_not_strict(self, start_before_first_interval, set_p0) ==
    LET y     == self.first_start_date[1]
        n     == Len(self.cycles)
        feb(i) == self.end_of_feb_check /\ i = self.p_feb_29 /\ ~is_leap(y)
        \* the loop body: `continue` on a skipped (2, 29), else compare the date
        hit(i) == /\ ~(feb(i) /\ self.end_of_feb_check_has_28)
                  /\ DateLE(self.first_start_date,
                            <<y, self.cycles[i + 1][1], IF feb(i) THEN 28 ELSE self.cycles[i + 1][2]>>)
        found == {i \in 0..(n - 1) : hit(i)}
        new_p0 == IF found = {} THEN n ELSE CHOOSE i \in found : \A j \in found : i <= j
        s1    == [self EXCEPT !.y = y]
        s2    == IF set_p0
                 THEN [s1 EXCEPT !.p0 = new_p0, !.p0_date = to_datetime(s1, new_p0, y, TRUE)]
                 ELSE s1
        s3    == [s2 EXCEPT !.p = s2.p0, !.ind = 0]
    IN IF ~(s3.at_first_interval # 0 /\ s3.at_last_interval # 0)
       THEN [s3 EXCEPT !.started_before_first_interval = start_before_first_interval,
                       !.at_first_interval = IF start_before_first_interval THEN -1 ELSE 1,
                       !.at_last_interval = 0]
       ELSE s3

\* reset(start_before_first_interval, set_p0)
reset(self, start_before_first_interval, set_p0) ==
    LET y     == self.first_start_date[1]
        n     == Len(self.cycles)
        feb(i) == self.end_of_feb_check /\ i = self.p_feb_29 /\ ~is_leap(y)
        \* the loop body: `continue` on a skipped (2, 29), else compare the date
        hit(i) == /\ ~(feb(i) /\ self.end_of_feb_check_has_28)
                  /\ DateLT(self.first_start_date,
                            <<y, self.cycles[i + 1][1], IF feb(i) THEN 28 ELSE self.cycles[i + 1][2]>>)
        found == {i \in 0..(n - 1) : hit(i)}
        new_p0 == IF found = {} THEN n ELSE CHOOSE i \in found : \A j \in found : i <= j
        s1    == [self EXCEPT !.y = y]
        s2    == IF set_p0
                 THEN [s1 EXCEPT !.p0 = new_p0, !.p0_date = to_datetime(s1, new_p0, y, TRUE)]
                 ELSE s1
        s3    == [s2 EXCEPT !.p = s2.p0, !.ind = 0]
    IN IF ~(s3.at_first_interval # 0 /\ s3.at_last_interval # 0)
       THEN [s3 EXCEPT !.started_before_first_interval = start_before_first_interval,
                       !.at_first_interval = IF start_before_first_interval THEN -1 ELSE 1,
                       !.at_last_interval = 0]
       ELSE s3

\* set_first_interval_start(first_interval_start, start_before_first_interval)
set_first_interval_start(self, first_interval_start, start_before_first_interval) ==
    LET s1 == [self EXCEPT !.first_start_date = first_interval_start, !.at_first_interval = 1]
        s2 == reset(s1, start_before_first_interval, TRUE)
    IN IF s2.has_last_end_date /\ DateLE(s2.last_end_date, s2.p0_date)
       THEN [s2 EXCEPT !.started_before_first_interval = FALSE,
                       !.at_last_interval = 1,
                       !.len = 1]
       ELSE s2

\* a check that lets every pair of bounds pass
start_less_end_check_off(self) == FALSE

\* _start_less_end_check: TRUE when it raises ValueError
start_less_end_check(self) ==
    self.last_end_date # NoDate /\ DateLT(self.last_end_date, self.first_start_date)

\* set_last_interval_end that leaves the size of an open-ended series unset
set_last_interval_end_size_unset(self, last_interval_end) ==
    LET s1 == [self EXCEPT !.last_end_date = last_interval_end,
                           !.has_last_end_date = (last_interval_end # NoDate)]
    IN IF start_less_end_check(s1)
       THEN [self |-> s1, raised |-> TRUE, error |-> "ValueError"]
       ELSE IF s1.has_last_end_date /\ DateLE(s1.last_end_date, s1.p0_date)
           THEN [self |-> [s1 EXCEPT !.started_before_first_interval = FALSE,
                                     !.at_first_interval = 1,
                                     !.at_last_interval = 1,
                                     !.len = 1],
                 raised |-> FALSE, error |-> ""]
       ELSE IF s1.has_last_end_date /\ index_from_date(s1, last_interval_end) = IntRaise
           THEN [self |-> s1, raised |-> TRUE, error |-> "IndexError"]
       ELSE IF s1.has_last_end_date
           THEN [self |-> [s1 EXCEPT !.len = index_from_date(s1, last_interval_end)],
                 raised |-> FALSE, error |-> ""]
       ELSE [self |-> s1, raised |-> FALSE, error |-> ""]

\* set_last_interval_end(last_interval_end); the fields are assigned before the
\* check, so a raising call returns the object with the new end already stored
set_last_interval_end(self, last_interval_end) ==
    LET s1 == [self EXCEPT !.last_end_date = last_interval_end,
                           !.has_last_end_date = (last_interval_end # NoDate)]
    IN IF start_less_end_check(s1)
       THEN [self |-> s1, raised |-> TRUE, error |-> "ValueError"]
       ELSE IF s1.has_last_end_date /\ DateLE(s1.last_end_date, s1.p0_date)
           THEN [self |-> [s1 EXCEPT !.started_before_first_interval = FALSE,
                                     !.at_first_interval = 1,
                                     !.at_last_interval = 1,
                                     !.len = 1],
                 raised |-> FALSE, error |-> ""]
       ELSE IF s1.has_last_end_date /\ index_from_date(s1, last_interval_end) = IntRaise
           THEN [self |-> s1, raised |-> TRUE, error |-> "IndexError"]
       ELSE IF s1.has_last_end_date
           THEN [self |-> [s1 EXCEPT !.len = index_from_date(s1, last_interval_end)],
                 raised |-> FALSE, error |-> ""]
       ELSE [self |-> [s1 EXCEPT !.len = MAX_INTERVAL], raised |-> FALSE, error |-> ""]

\* the validation with the day counts of a non-leap year
valid_point_non_leap(md) == ~(md[2] < 1 \/ md[1] < 1 \/ md[1] > 12 \/ month_days_28[md[1]] < md[2])

\* the (month, day) validation loop of __init__, over the cycles as given
valid_point(md) == ~(md[2] < 1 \/ md[1] < 1 \/ md[1] > 12 \/ month_days_29[md[1]] < md[2])

\* __init__(cycles, first_interval_start, last_interval_end, start_before_first_interval)
DateIntervalCycler(cyclesIn, first_interval_start, last_interval_end, start_before_first_interval) ==
    LET cyc  == intervals_to_array(cyclesIn)
        feb  == InSeq(cyc, FEB29)
        s0   == [cycles |-> cyc,
                 dim |-> Len(cyclesIn),
                 end_of_feb_check |-> feb,
                 end_of_feb_check_has_28 |-> feb /\ InSeq(cyc, FEB28),
                 p_feb_29 |-> IF feb THEN IndexOf(cyc, FEB29) ELSE MAX_INTERVAL,
                 p0_date |-> NUL,
                 has_last_end_date |-> FALSE,
                 at_first_interval |-> 0,
                 at_last_interval |-> 0,
                 first_start_date |-> NoDate,
                 last_end_date |-> NoDate,
                 started_before_first_interval |-> FALSE,
                 y |-> 0, p |-> 0, p0 |-> 0, ind |-> 0, len |-> 0]
        s1   == set_first_interval_start(s0, first_interval_start, start_before_first_interval)
        r2   == set_last_interval_end(s1, last_interval_end)
    IN IF Len(cyclesIn) < 1 \/ \E i \in 1..Len(cyclesIn) : ~valid_point(cyclesIn[i])
       THEN [self |-> s0, raised |-> TRUE, error |-> "ValueError"]
       \* self.cycles[p0] in reset(set_p0=True), with more entries given than kept
       ELSE IF s1.p0_date = DateRaise
       THEN [self |-> s0, raised |-> TRUE, error |-> "IndexError"]
       ELSE r2

\* with_daily: the 366 (month, day) points of a leap year
DaysOfYear ==
    LET RECURSIVE before(_)
        \* days of the leap year before month m
        before(m) == IF m = 1 THEN 0 ELSE before(m - 1) + month_days_29[m - 1]
        month(k)  == CHOOSE m \in 1..12 : before(m) < k /\ k <= before(m) + month_days_29[m]
    IN [k \in 1..(before(12) + month_days_29[12]) |-> <<month(k), k - before(month(k))>>]

with_daily(first_interval_start, last_interval_end, start_before_first_interval) ==
    DateIntervalCycler(DaysOfYear, first_interval_start, last_interval_end,
                       start_before_first_interval)

\* with_monthly: the first day of each month
with_monthly(first_interval_start, last_interval_end, start_before_first_interval) ==
    DateIntervalCycler([m \in 1..12 |-> <<m, 1>>], first_interval_start, last_interval_end,
                       start_before_first_interval)

----------------------------------------------------------------------------
(* cursor movement; each returns the new object, the int returned and        *)
(* whether StopIteration was raised                                          *)

\* copy() that hands back the object it was called on
copy_returns_self(self, reset_copy) ==
    [self |-> IF reset_copy THEN reset(self, self.started_before_first_interval, FALSE) ELSE self,
     same_object |-> TRUE]

\* copy(reset): a new object built through the _internal_copy_init branch of
\* __init__, then filled field by field; every value assigned is immutable
\* (tuple, datetime, int, bool), so the two objects share no state
copy(self, reset_copy) ==
    LET c == [cycles |-> self.cycles,
              first_start_date |-> self.first_start_date,
              last_end_date |-> self.last_end_date,
              dim |-> Len(self.cycles),
              started_before_first_interval |-> self.started_before_first_interval,
              has_last_end_date |-> self.has_last_end_date,
              end_of_feb_check |-> self.end_of_feb_check,
              end_of_feb_check_has_28 |-> self.end_of_feb_check_has_28,
              p_feb_29 |-> self.p_feb_29,
              y |-> self.y,
              p |-> self.p,
              p0 |-> self.p0,
              p0_date |-> self.p0_date,
              ind |-> self.ind,
              len |-> self.len,
              at_first_interval |-> self.at_first_interval,
              at_last_interval |-> self.at_last_interval]
    IN [self |-> IF reset_copy THEN reset(c, self.started_before_first_interval, FALSE) ELSE c,
        same_object |-> FALSE]

\* the Feb-29 test shared by next and back: the pointer is on (2, 29), (2, 28)
\* is a cycle point too, and the cursor's year is no leap year
on_dead_feb29(self) ==
    self.end_of_feb_check_has_28 /\ self.p = self.p_feb_29 /\ ~is_leap(self.y)

\* next without the step that first settles on the first interval when the
\* cursor was started before it
next_ignores_before_first(self, allowStopIteration) ==
    IF self.at_last_interval # 0 THEN
        [self |-> [self EXCEPT !.at_last_interval = self.at_last_interval + 1],
         ret |-> self.at_last_interval,
         raised |-> allowStopIteration,
         error |-> IF allowStopIteration THEN "StopIteration" ELSE ""]
    ELSE
        LET s1 == IF self.at_first_interval # 0
                  THEN [self EXCEPT !.at_first_interval = 0, !.p = self.p - 1]
                  ELSE self
            s2 == p_next(s1)
            s3 == [s2 EXCEPT !.ind = s2.ind + 1]
        IN IF /\ s3.has_last_end_date
              /\ s3.y + 1 >= s3.last_end_date[1]
              /\ to_datetime(s3, s3.p + 1, s3.y, TRUE) = DateRaise
           \* self.cycles[p] beyond the cycles kept: the call ends there
           THEN [self |-> s3, ret |-> 0, raised |-> TRUE, error |-> "IndexError"]
           ELSE IF /\ s3.has_last_end_date
                   /\ s3.y + 1 >= s3.last_end_date[1]
                   /\ DateLE(s3.last_end_date, to_datetime(s3, s3.p + 1, s3.y, TRUE))
           THEN [self |-> [(IF on_dead_feb29(s3) THEN p_back(s3) ELSE s3)
                              EXCEPT !.at_last_interval = 1],
                 ret |-> 0, raised |-> FALSE, error |-> ""]
           ELSE [self |-> IF on_dead_feb29(s3) THEN p_next(s3) ELSE s3,
                 ret |-> 0, raised |-> FALSE, error |-> ""]

\* next(allowStopIteration)
next(self, allowStopIteration) ==
    IF self.at_last_interval # 0 THEN
        [self |-> [self EXCEPT !.at_last_interval = self.at_last_interval + 1],
         ret |-> self.at_last_interval,
         raised |-> allowStopIteration,
         error |-> IF allowStopIteration THEN "StopIteration" ELSE ""]
    ELSE IF self.at_first_interval = -1 THEN
        [self |-> [self EXCEPT !.at_first_interval = 1], ret |-> 0, raised |-> FALSE, error |-> ""]
    ELSE
        LET s1 == IF self.at_first_interval # 0
                  THEN [self EXCEPT !.at_first_interval = 0, !.p = self.p - 1]
                  ELSE self
            s2 == p_next(s1)
            s3 == [s2 EXCEPT !.ind = s2.ind + 1]
        IN IF /\ s3.has_last_end_date
              /\ s3.y + 1 >= s3.last_end_date[1]
              /\ to_datetime(s3, s3.p + 1, s3.y, TRUE) = DateRaise
           \* self.cycles[p] beyond the cycles kept: the call ends there
           THEN [self |-> s3, ret |-> 0, raised |-> TRUE, error |-> "IndexError"]
           ELSE IF /\ s3.has_last_end_date
                   /\ s3.y + 1 >= s3.last_end_date[1]
                   /\ DateLE(s3.last_end_date, to_datetime(s3, s3.p + 1, s3.y, TRUE))
           THEN [self |-> [(IF on_dead_feb29(s3) THEN p_back(s3) ELSE s3)
                              EXCEPT !.at_last_interval = 1],
                 ret |-> 0, raised |-> FALSE, error |-> ""]
           ELSE [self |-> IF on_dead_feb29(s3) THEN p_next(s3) ELSE s3,
                 ret |-> 0, raised |-> FALSE, error |-> ""]

\* back(allowStopIteration)
back(self, allowStopIteration) ==
    IF self.at_first_interval # 0 THEN
        LET a == IF self.at_first_interval = -1 THEN 1 ELSE self.at_first_interval
        IN [self |-> [self EXCEPT !.at_first_interval = a + 1],
            ret |-> a,
            raised |-> allowStopIteration,
            error |-> IF allowStopIteration THEN "StopIteration" ELSE ""]
    ELSE
        LET s1 == [self EXCEPT !.at_last_interval = 0]
            s2 == p_back(s1)
            s3 == [s2 EXCEPT !.ind = s2.ind - 1]
        IN IF /\ s3.y <= s3.first_start_date[1] + 1
              /\ to_datetime(s3, s3.p, s3.y, TRUE) = DateRaise
           \* self.cycles[p] beyond the cycles kept: the call ends there
           THEN [self |-> s3, ret |-> 0, raised |-> TRUE, error |-> "IndexError"]
           ELSE IF /\ s3.y <= s3.first_start_date[1] + 1
                   /\ DateLE(to_datetime(s3, s3.p, s3.y, TRUE), s3.first_start_date)
           THEN [self |-> reset(s3, FALSE, FALSE), ret |-> 0, raised |-> FALSE, error |-> ""]
           ELSE [self |-> IF on_dead_feb29(s3) THEN p_back(s3) ELSE s3,
                 ret |-> 0, raised |-> FALSE, error |-> ""]

----------------------------------------------------------------------------
(* date -> interval *)

\* interval_from_date(date, only_start, only_end), on a series that has a
\* last_interval_end (the comparison with None raises otherwise)
interval_from_date(self, date, only_start0, only_end0) ==
    LET only_start == only_start0 /\ ~only_end0
        only_end   == only_end0 /\ ~only_start0
        dim    == Len(self.cycles)
        yN     == date[1]
        feb(i) == self.end_of_feb_check /\ i = self.p_feb_29 /\ ~is_leap(yN)
        \* the loop body: `continue` on a skipped (2, 29), else compare the date
        hit(i) == /\ ~(feb(i) /\ self.end_of_feb_check_has_28)
                  /\ DateLT(date, <<yN, self.cycles[i + 1][1],
                                    IF feb(i) THEN 28 ELSE self.cycles[i + 1][2]>>)
        found  == {i \in 0..(dim - 1) : hit(i)}
        pN     == IF found = {} THEN dim ELSE CHOOSE i \in found : \A j \in found : i <= j
        end0   == to_datetime(self, pN, yN, TRUE)
        interval_end_ == IF DateLT(self.last_end_date, end0) THEN self.last_end_date ELSE end0
        inside == 0 < pN /\ pN < dim
        p0     == IF inside THEN pN - 1 ELSE dim - 1
        y0     == IF inside \/ pN = dim THEN yN ELSE yN - 1
    IN IF DateLT(date, self.first_start_date) \/ DateLT(self.last_end_date, date)
           THEN (IF only_start \/ only_end THEN NoDate ELSE <<NoDate, NoDate>>)
       ELSE IF DateLT(date, self.p0_date)
           THEN Pick(self.first_start_date, self.p0_date, only_start, only_end)
       ELSE IF only_end THEN interval_end_
       ELSE IF only_start THEN to_datetime(self, p0, y0, TRUE)
       ELSE <<to_datetime(self, p0, y0, FALSE), interval_end_>>

----------------------------------------------------------------------------
(* iteration and tolist *)

\* an override argument of tolist: None, a date, or an interval index
NoOverride == <<"none">>

DateOverride(date) == <<"date", date>>

IndexOverride(index) == <<"index", index>>

\* reading the interval property raises when a cycle lookup raises
IntervalRaises(self) == interval_start(self) = DateRaise \/ interval_end(self) = DateRaise

\* iter(), not started before the first interval:
\* while True: yield self.interval; if self.next(): return
\* (steps is the number of further rounds followed; the singleton set binds the
\* cursor of the round to a value)
RECURSIVE iter_yield_next(_, _, _)
iter_yield_next(self, list, steps) ==
    LET round(s, r) ==
            IF IntervalRaises(s)
            THEN [self |-> s, list |-> list, raised |-> TRUE, error |-> "IndexError"]
            ELSE IF r.raised
            THEN [self |-> r.self, list |-> Append(list, interval(s)), raised |-> TRUE, error |-> r.error]
            ELSE IF r.ret # 0
            THEN [self |-> r.self, list |-> Append(list, interval(s)), raised |-> FALSE, error |-> ""]
            ELSE IF steps = 0
            THEN [self |-> r.self, list |-> Append(list, interval(s)), raised |-> TRUE, error |-> "Unending"]
            ELSE iter_yield_next(r.self, Append(list, interval(s)), steps - 1)
    IN CHOOSE out \in {round(s, next(s, FALSE)) : s \in {self}} : TRUE

\* iter(), started before the first interval:
\* while not self.next(): yield self.interval
RECURSIVE iter_next_yield(_, _, _)
iter_next_yield(self, list, steps) ==
    LET round(r) ==
            IF r.raised
            THEN [self |-> r.self, list |-> list, raised |-> TRUE, error |-> r.error]
            ELSE IF r.ret # 0
            THEN [self |-> r.self, list |-> list, raised |-> FALSE, error |-> ""]
            ELSE IF IntervalRaises(r.self)
            THEN [self |-> r.self, list |-> list, raised |-> TRUE, error |-> "IndexError"]
            ELSE IF steps = 0
            THEN [self |-> r.self, list |-> Append(list, interval(r.self)), raised |-> TRUE, error |-> "Unending"]
            ELSE iter_next_yield(r.self, Append(list, interval(r.self)), steps - 1)
    IN CHOOSE out \in {round(r) : r \in {next(self, FALSE)}} : TRUE

\* iter(reset_to_start), run to exhaustion: the values it yields, the object
\* as the generator leaves it, and the exception that ended it, if any
iter(self, reset_to_start, steps) ==
    IF self.at_first_interval # 0 /\ self.at_last_interval # 0
    THEN [self |-> self, list |-> <<interval(self)>>, raised |-> FALSE, error |-> ""]
    ELSE LET s == IF reset_to_start THEN reset(self, FALSE, FALSE) ELSE self
         IN IF s.started_before_first_interval
            THEN iter_next_yield(s, << >>, steps)
            ELSE iter_yield_next(s, << >>, steps)

\* tolist that lists from the object itself instead of from a copy
tolist_in_place(self, start_override, end_override, from_current_position, steps) ==
    LET it == iter(IF from_current_position THEN self ELSE reset(self, FALSE, FALSE), FALSE, steps)
    IN IF ~self.has_last_end_date /\ end_override = NoOverride
       THEN [self |-> self, list |-> << >>, raised |-> TRUE, error |-> "ValueError"]
       ELSE it

\* tolist, the start block, on the copy cid: an index override is resolved on
\* self by index_to_interval, as self[start_override][0] is
tolist_start(self, cid0, start_override, from_current_position) ==
    IF start_override[1] = "index"
    THEN set_first_interval_start(
             cid0, index_to_interval(self, start_override[2], FALSE, FALSE)[1], FALSE)
    ELSE IF start_override[1] = "date"
    THEN set_first_interval_start(cid0, start_override[2], FALSE)
    ELSE IF ~from_current_position
    THEN reset(cid0, FALSE, FALSE)
    ELSE cid0

\* tolist, the end block, on the copy cid (self[end_override][1] for an index)
tolist_end(self, cid1, end_override) ==
    IF end_override = NoOverride
    THEN cid1
    ELSE [cid1 EXCEPT !.last_end_date = IF end_override[1] = "index"
                                        THEN index_to_interval(self, end_override[2], FALSE, FALSE)[2]
                                        ELSE end_override[2],
                      !.has_last_end_date = TRUE,
                      !.len = -999]

\* tolist, _start_less_end_check and [it for it in cid]; self is not the copy
tolist_list(self, cid2, end_override, steps) ==
    IF end_override # NoOverride /\ start_less_end_check(cid2)
    THEN [self |-> self, list |-> << >>, raised |-> TRUE, error |-> "ValueError"]
    ELSE [iter(cid2, FALSE, steps) EXCEPT !.self = self]

\* tolist(start_override, end_override, from_current_position), as_str False
tolist(self, start_override, end_override, from_current_position, steps) ==
    IF ~self.has_last_end_date /\ end_override = NoOverride
    THEN [self |-> self, list |-> << >>, raised |-> TRUE, error |-> "ValueError"]
    ELSE tolist_list(self,
                     tolist_end(self,
                                tolist_start(self, copy(self, FALSE).self,
                                             start_override, from_current_position),
                                end_override),
                     end_override, steps)

\* next_get(allowStopIteration): next(), then (interval_start, interval_end);
\* ret is that pair
next_get(self, allowStopIteration) ==
    LET r == next(self, allowStopIteration)
    IN [self |-> r.self,
        ret |-> IF r.raised THEN <<NoDate, NoDate>>
                ELSE <<interval_start(r.self), interval_end(r.self)>>,
        raised |-> r.raised \/ (~r.raised /\ IntervalRaises(r.self)),
        error |-> IF r.raised THEN r.error
                  ELSE IF IntervalRaises(r.self) THEN "IndexError" ELSE ""]

\* the boundary dates of a list of intervals, flat: the start of the first
\* interval, then the end of every interval
totuple_flat(l) ==
    [self |-> l.self,
     tuple |-> IF l.list = << >> THEN << >>
               ELSE <<l.list[1][1]>> \o [i \in 1..Len(l.list) |-> l.list[i][2]],
     raised |-> l.raised,
     error |-> l.error]

\* totuple(): the boundary dates of the list tolist() gives
totuple(self, steps) == totuple_flat(tolist(self, NoOverride, NoOverride, FALSE, steps))

\* slice(start, stop) and slice(start, stop, step), with integer members
Slice(start, stop) == [start |-> start, stop |-> stop, has_step |-> FALSE, step |-> 0]

SliceStep(start, stop, step) == [start |-> start, stop |-> stop, has_step |-> TRUE, step |-> step]

\* a date index_to_interval returned, handed to tolist as an override; the
\* None it returns for an index out of range is no override
AsOverride(date) == IF date = NoDate THEN NoOverride ELSE DateOverride(date)

\* __getitem__(ind) for a slice of integers
getitem_slice(self, ind, steps) ==
    LET st == IF ind.start < 0 THEN ind.start + self.len ELSE ind.start
        sp == IF ind.stop < 0 THEN ind.stop + self.len ELSE ind.stop
    IN IF ind.has_step
       THEN [self |-> self, list |-> << >>, raised |-> TRUE, error |-> "IndexError"]
       ELSE IF ~self.has_last_end_date /\ (ind.start < 0 \/ ind.stop < 0 \/ ind.stop >= self.len)
       THEN [self |-> self, list |-> << >>, raised |-> TRUE, error |-> "IndexError"]
       ELSE IF sp <= st
       THEN [self |-> self, list |-> << >>, raised |-> FALSE, error |-> ""]
       ELSE tolist(self,
                   AsOverride(index_to_interval(self, st, TRUE, FALSE)),
                   AsOverride(IF st = self.len THEN self.last_end_date
                              ELSE index_to_interval(self, sp, TRUE, FALSE)),
                   FALSE, steps)

\* a resumption that returns at once, wherever the cursor is
iter_resume_returns_at_once(self, at) ==
    [self |-> self, at |-> "returned", value |-> <<NoDate, NoDate>>]

\* the generator iter() returns, one resumption at a time. A frame is where the
\* generator is suspended ("single": the yield of the one-interval branch,
\* "sbf": the yield of `while not self.next()`, "loop": the yield of
\* `while True`), or "returned", or "raised"; value is what it yielded.
iter_resume(self, at) ==
    IF at = "single"
    THEN [self |-> self, at |-> "returned", value |-> <<NoDate, NoDate>>]
    ELSE LET r == next(self, FALSE)
         IN IF r.raised
            THEN [self |-> r.self, at |-> "raised", value |-> <<NoDate, NoDate>>]
            ELSE IF r.ret # 0
            THEN [self |-> r.self, at |-> "returned", value |-> <<NoDate, NoDate>>]
            ELSE IF IntervalRaises(r.self)
            THEN [self |-> r.self, at |-> "raised", value |-> <<NoDate, NoDate>>]
            ELSE [self |-> r.self, at |-> at, value |-> interval(r.self)]

\* the first resumption of iter(reset_to_start): from the top of the body to
\* the first yield or the return
iter_begin(self, reset_to_start) ==
    IF self.at_first_interval # 0 /\ self.at_last_interval # 0
    THEN [self |-> self, at |-> "single", value |-> interval(self)]
    ELSE IF (IF reset_to_start THEN reset(self, FALSE, FALSE) ELSE self).started_before_first_interval
    THEN iter_resume(IF reset_to_start THEN reset(self, FALSE, FALSE) ELSE self, "sbf")
    ELSE IF IntervalRaises(IF reset_to_start THEN reset(self, FALSE, FALSE) ELSE self)
    THEN [self |-> IF reset_to_start THEN reset(self, FALSE, FALSE) ELSE self,
          at |-> "raised", value |-> <<NoDate, NoDate>>]
    ELSE [self |-> IF reset_to_start THEN reset(self, FALSE, FALSE) ELSE self,
          at |-> "loop", value |-> interval(IF reset_to_start THEN reset(self, FALSE, FALSE) ELSE self)]

----------------------------------------------------------------------------
(* the state machine: one cycler, driven by next / back / reset *)

\* bounds of the model
FirstYear == 2019
NumYears == 3
MaxCycles == 2
MaxOvershoot == 2

LastYear == FirstYear + NumYears - 1

\* no series of the model has more intervals than this; next() is not called
\* on a cursor whose index has drifted beyond it
IndexCap == NumYears * (MaxCycles + 1) + 1

\* the cycle points the cycle sets are drawn from
Points == {<<2, 1>>, <<2, 28>>, <<2, 29>>, <<3, 1>>, <<12, 31>>}

\* the (month, day) of the series bounds
BoundDays == {<<1, 1>>, <<2, 28>>, <<2, 29>>, <<3, 1>>, <<3, 2>>}

CycleSets ==
    {SortedSeq(S) : S \in {T \in SUBSET Points : Cardinality(T) >= 1 /\ Cardinality(T) <= MaxCycles}}

Dates ==
    {<<y, md[1], md[2]>> : y \in FirstYear..LastYear,
                           md \in {x \in BoundDays : x[2] <= 28 \/ x[1] # 2}}
    \cup {<<y, 2, 29>> : y \in {z \in FirstYear..LastYear : is_leap(z) /\ FEB29 \in BoundDays}}

VARIABLES
    cid,      \* the cycler object
    lastOp,   \* the last call made on it: "init", "next", "back", "reset"
    ret,      \* what that call returned
    raised,   \* whether it raised (StopIteration, or ValueError from __init__ / a setter)
    prev,     \* what the cycler exposed before that call
    phase,    \* "fwd": only next() since construction / reset, cursor not past the end
              \* "rev": then only back() from the last interval; "free": anything else
    fwd,      \* the intervals of the forward traversal so far
    rev,      \* the intervals of the backward traversal so far, last interval first
    args,     \* the arguments of a constructor or setter call
    twin,     \* a second cycler: a copy of cid, or one built beside it
    alias,    \* whether twin and cid are one and the same object
    error,    \* the class of the exception the last call raised, "" when none
    calls     \* the number of calls made on cid or twin since twin was made

vars == <<cid, lastOp, ret, raised, prev, phase, fwd, rev, args, twin, alias, error, calls>>

\* no object (yet)
NoObject == [cycles |-> << >>]

NoArgs == << >>

\* what a caller can read off the cycler
Snap(self) ==
    [index |-> self.ind,
     interval |-> interval(self),
     at_first_interval |-> self.at_first_interval # 0,
     at_last_interval |-> self.at_last_interval # 0]

NoSnap == [index |-> -1, interval |-> <<NoDate, NoDate>>,
           at_first_interval |-> FALSE, at_last_interval |-> FALSE]

Start(r) ==
    /\ ~r.raised
    /\ cid = r.self
    /\ lastOp = "init"
    /\ ret = 0
    /\ raised = FALSE
    /\ prev = NoSnap
    /\ phase = "fwd"
    /\ fwd = <<interval(r.self)>>
    /\ rev = << >>
    /\ args = NoArgs
    /\ twin = NoObject
    /\ alias = FALSE
    /\ error = ""
    /\ calls = 0

Init ==
    \E cyc \in CycleSets, s \in Dates, e \in Dates \cup {NoDate}, sbf \in BOOLEAN :
        /\ e = NoDate \/ DateLT(s, e)
        /\ Start(DateIntervalCycler(cyc, s, e, sbf))

Called(op, r) ==
    /\ cid' = r.self
    /\ lastOp' = op
    /\ ret' = r.ret
    /\ raised' = r.raised
    /\ error' = r.error
    /\ UNCHANGED <<args, twin, alias, calls>>
    /\ prev' = Snap(cid)

Next_ ==
    \E allowStopIteration \in BOOLEAN :
        LET r == next(cid, allowStopIteration)
        IN /\ cid.y <= LastYear
           /\ cid.ind < IndexCap
           /\ cid.at_last_interval <= MaxOvershoot
           /\ Called("next", r)
           /\ IF phase = "fwd" /\ cid.at_last_interval = 0
              THEN /\ phase' = "fwd"
                   /\ fwd' = IF r.self.ind # cid.ind THEN Append(fwd, interval(r.self)) ELSE fwd
                   /\ rev' = rev
              ELSE /\ phase' = "free"
                   /\ fwd' = << >>
                   /\ rev' = << >>

Back ==
    \E allowStopIteration \in BOOLEAN :
        LET r == back(cid, allowStopIteration)
        IN /\ cid.y >= FirstYear
           /\ cid.ind >= 0
           /\ cid.at_first_interval <= MaxOvershoot
           /\ Called("back", r)
           /\ IF /\ cid.at_first_interval = 0
                 /\ \/ phase = "fwd" /\ cid.at_last_interval # 0
                    \/ phase = "rev"
              THEN /\ phase' = "rev"
                   /\ fwd' = fwd
                   /\ rev' = (IF phase = "fwd" THEN <<interval(cid)>> ELSE rev)
                             \o <<interval(r.self)>>
              ELSE /\ phase' = "free"
                   /\ fwd' = << >>
                   /\ rev' = << >>

Reset ==
    \E start_before_first_interval \in BOOLEAN :
        LET s == reset(cid, start_before_first_interval, FALSE)
        IN /\ Called("reset", [self |-> s, ret |-> 0, raised |-> FALSE, error |-> ""])
           /\ phase' = "fwd"
           /\ fwd' = <<interval(s)>>
           /\ rev' = << >>

Next == Next_ \/ Back \/ Reset

Spec == Init /\ [][Next]_vars

----------------------------------------------------------------------------
(* the same machine started from with_daily *)

MaxDailySpan == 4

DailyStartDays == {<<2, 26>>, <<2, 27>>, <<2, 28>>, <<12, 30>>}

\* date + timedelta(days=n)
RECURSIVE AddDays(_, _)
AddDays(date, n) == IF n = 0 THEN date ELSE AddDays(NextDay(date), n - 1)

InitDaily ==
    \E y \in FirstYear..(FirstYear + 1), md \in DailyStartDays, n \in 1..MaxDailySpan, sbf \in BOOLEAN :
        Start(with_daily(<<y, md[1], md[2]>>, AddDays(<<y, md[1], md[2]>>, n), sbf))

SpecDaily == InitDaily /\ [][Next]_vars

----------------------------------------------------------------------------
(* construction from arguments as a caller may give them *)

\* (month, day) pairs that are no day of any year
InvalidPoints == {<<2, 30>>, <<4, 31>>, <<13, 1>>, <<1, 0>>, <<0, 1>>}

RawPoints == Points \cup InvalidPoints

\* cycle lists in any order, with repeats, and the empty list
RawCycleLists == UNION {[1..n -> RawPoints] : n \in 0..MaxCycles}

CtorDates == {d \in Dates : d[1] <= FirstYear + 1}

InitCtor ==
    \E cyc \in RawCycleLists, s \in CtorDates, e \in CtorDates \cup {NoDate}, sbf \in BOOLEAN :
        /\ args = [cycles |-> cyc, first_interval_start |-> s, last_interval_end |-> e,
                   start_before_first_interval |-> sbf]
        /\ cid = NoObject
        /\ lastOp = "args"
        /\ ret = 0
        /\ raised = FALSE
        /\ prev = NoSnap
        /\ phase = "free"
        /\ fwd = << >>
        /\ rev = << >>
        /\ twin = NoObject
        /\ alias = FALSE
        /\ error = ""
        /\ calls = 0

\* DateIntervalCycler(cycles, first_interval_start, last_interval_end,
\* start_before_first_interval); a raising call binds no object
Construct ==
    /\ lastOp = "args"
    /\ LET r == DateIntervalCycler(args.cycles, args.first_interval_start,
                                   args.last_interval_end, args.start_before_first_interval)
       IN /\ cid' = IF r.raised THEN NoObject ELSE r.self
          /\ raised' = r.raised
          /\ error' = r.error
    /\ lastOp' = "init"
    /\ UNCHANGED <<ret, prev, phase, fwd, rev, args, twin, alias, calls>>

SpecCtor == InitCtor /\ [][Construct]_vars

----------------------------------------------------------------------------
(* a cycler whose bounds are changed by the two setters *)

\* set_first_interval_start(first_interval_start, start_before_first_interval)
SetFirst ==
    \E d \in CtorDates, sbf \in BOOLEAN :
        /\ cid' = set_first_interval_start(cid, d, sbf)
        /\ lastOp' = "set_first_interval_start"
        /\ args' = <<d, sbf>>
        /\ ret' = 0
        /\ raised' = FALSE
        /\ prev' = Snap(cid)
        /\ phase' = "free"
        /\ fwd' = << >>
        /\ rev' = << >>
        /\ error' = ""
        /\ UNCHANGED <<twin, alias, calls>>

\* set_last_interval_end(last_interval_end); a raising call has already
\* stored the new end
SetLast ==
    \E e \in CtorDates \cup {NoDate} :
        LET r == set_last_interval_end(cid, e)
        IN /\ cid' = r.self
           /\ lastOp' = "set_last_interval_end"
           /\ args' = <<e>>
           /\ ret' = 0
           /\ raised' = r.raised
           /\ prev' = Snap(cid)
           /\ phase' = "free"
           /\ fwd' = << >>
           /\ rev' = << >>
           /\ error' = r.error
           /\ UNCHANGED <<twin, alias, calls>>

NextSetters == SetFirst \/ SetLast

SpecSetters == Init /\ [][NextSetters]_vars

----------------------------------------------------------------------------
(* a cycler x (cid) and its copy c (twin), each driven on its own *)

MaxCopyCalls == 2

CopyStarts == {<<FirstYear, 1, 1>>, <<FirstYear, 3, 1>>}

CopyEnds == {<<FirstYear + 1, 3, 2>>}

\* one cycle point; the two end-of-February points; two points across the year end
CopyCycles == {<<<<2, 1>>>>, <<FEB28, FEB29>>, <<<<3, 1>>, <<12, 31>>>>}

InitCopy ==
    \E cyc \in CopyCycles, s \in CopyStarts, e \in CopyEnds \cup {NoDate}, sbf \in BOOLEAN :
        Start(DateIntervalCycler(cyc, s, e, sbf))

\* x.next() before the copy is taken
Advance ==
    /\ twin = NoObject
    /\ Next_

\* c = x.copy(reset)
Copy ==
    \E reset_copy \in BOOLEAN :
        LET r == copy(cid, reset_copy)
        IN /\ twin = NoObject
           /\ twin' = r.self
           /\ alias' = r.same_object
           /\ cid' = IF r.same_object THEN r.self ELSE cid
           /\ lastOp' = "copy"
           /\ args' = <<reset_copy>>
           /\ ret' = 0
           /\ raised' = FALSE
           /\ error' = ""
           /\ prev' = Snap(cid)
           /\ phase' = "free"
           /\ fwd' = << >>
           /\ rev' = << >>
           /\ calls' = 0

\* the object a name refers to
Target(name) == IF name = "x" THEN cid ELSE twin

\* a call on x or on c: it changes the object the name refers to, which is
\* the other name's object too exactly when the two are one object
CalledOn(name, op, a, r) ==
    /\ twin # NoObject
    /\ calls < MaxCopyCalls
    /\ cid' = IF name = "x" \/ alias THEN r.self ELSE cid
    /\ twin' = IF name = "c" \/ alias THEN r.self ELSE twin
    /\ lastOp' = op
    /\ args' = <<name>> \o a
    /\ ret' = r.ret
    /\ raised' = r.raised
    /\ error' = r.error
    /\ prev' = Snap(Target(name))
    /\ phase' = "free"
    /\ fwd' = << >>
    /\ rev' = << >>
    /\ calls' = calls + 1
    /\ UNCHANGED alias

CopyNext ==
    \E name \in {"x", "c"}, allowStopIteration \in BOOLEAN :
        LET r == next(Target(name), allowStopIteration)
        IN /\ twin # NoObject
           /\ Target(name).y <= LastYear
           /\ Target(name).ind < IndexCap
           /\ CalledOn(name, "next", <<allowStopIteration>>, r)

CopyBack ==
    \E name \in {"x", "c"}, allowStopIteration \in BOOLEAN :
        LET r == back(Target(name), allowStopIteration)
        IN /\ twin # NoObject
           /\ Target(name).y >= FirstYear
           /\ Target(name).ind >= 0
           /\ CalledOn(name, "back", <<allowStopIteration>>, r)

CopyReset ==
    \E name \in {"x", "c"}, start_before_first_interval \in BOOLEAN :
        /\ twin # NoObject
        /\ CalledOn(name, "reset", <<start_before_first_interval>>,
                    [self |-> reset(Target(name), start_before_first_interval, FALSE),
                     ret |-> 0, raised |-> FALSE, error |-> ""])

CopySetFirst ==
    \E name \in {"x", "c"}, d \in CopyStarts, sbf \in BOOLEAN :
        /\ twin # NoObject
        /\ CalledOn(name, "set_first_interval_start", <<d, sbf>>,
                    [self |-> set_first_interval_start(Target(name), d, sbf),
                     ret |-> 0, raised |-> FALSE, error |-> ""])

CopySetLast ==
    \E name \in {"x", "c"}, e \in CopyEnds \cup {NoDate} :
        LET r == set_last_interval_end(Target(name), e)
        IN /\ twin # NoObject
           /\ CalledOn(name, "set_last_interval_end", <<e>>,
                       [self |-> r.self, ret |-> 0, raised |-> r.raised, error |-> r.error])

NextCopy ==
    Advance \/ Copy \/ CopyNext \/ CopyBack \/ CopyReset \/ CopySetFirst \/ CopySetLast

SpecCopy == InitCopy /\ [][NextCopy]_vars

----------------------------------------------------------------------------
(* cyclers built from cycle lists in any order and with repeated points *)

\* lists of valid cycle points as a caller may write them
ValidCycleLists == UNION {[1..n -> Points] : n \in 1..MaxCycles}

\* every construction from such a list that does not raise
InitRaw ==
    \E cyc \in ValidCycleLists, s \in CopyStarts, e \in CopyEnds \cup {NoDate}, sbf \in BOOLEAN :
        Start(DateIntervalCycler(cyc, s, e, sbf))

SpecRaw == InitRaw /\ [][Next]_vars

----------------------------------------------------------------------------
(* such a cycler x (cid) and c = x.copy() (twin), driven in step *)

MaxTwinCalls == 3

\* c = x.copy()
CopyAsIs ==
    LET r == copy(cid, FALSE)
    IN /\ twin = NoObject
       /\ twin' = r.self
       /\ alias' = r.same_object
       /\ lastOp' = "copy"
       /\ args' = <<0, "">>
       /\ ret' = 0
       /\ raised' = FALSE
       /\ error' = ""
       /\ prev' = Snap(cid)
       /\ phase' = "free"
       /\ fwd' = << >>
       /\ rev' = << >>
       /\ calls' = 0
       /\ UNCHANGED cid

\* the same call made on x and on c; args keeps what the call on c gave
CalledOnBoth(op, rx, rc) ==
    /\ twin # NoObject
    /\ calls < MaxTwinCalls
    /\ cid' = rx.self
    /\ twin' = rc.self
    /\ lastOp' = op
    /\ ret' = rx.ret
    /\ raised' = rx.raised
    /\ error' = rx.error
    /\ args' = <<rc.ret, rc.error>>
    /\ prev' = Snap(cid)
    /\ phase' = "free"
    /\ fwd' = << >>
    /\ rev' = << >>
    /\ calls' = calls + 1
    /\ UNCHANGED alias

\* x.next(allowStopIteration); c.next(allowStopIteration)
BothNext ==
    \E allowStopIteration \in BOOLEAN :
        /\ twin # NoObject
        /\ CalledOnBoth("next", next(cid, allowStopIteration), next(twin, allowStopIteration))

\* x.back(allowStopIteration); c.back(allowStopIteration)
BothBack ==
    \E allowStopIteration \in BOOLEAN :
        /\ twin # NoObject
        /\ CalledOnBoth("back", back(cid, allowStopIteration), back(twin, allowStopIteration))

NextTwin == Advance \/ CopyAsIs \/ BothNext \/ BothBack

SpecTwin == InitRaw /\ [][NextTwin]_vars

----------------------------------------------------------------------------
(* a cycler moved by next / back / reset and then listed *)

\* more rounds than any list of the model has intervals
IterCap == 2 * IndexCap

ListStarts == {<<FirstYear, 2, 28>>, <<FirstYear + 1, 1, 1>>}

ListEnds == {<<FirstYear + 1, 3, 1>>, <<FirstYear + 2, 1, 1>>}

ListIndexes == {0, 1, 3}

StartOverrides ==
    {NoOverride} \cup {DateOverride(d) : d \in ListStarts} \cup {IndexOverride(i) : i \in ListIndexes}

EndOverrides ==
    {NoOverride} \cup {DateOverride(d) : d \in ListEnds} \cup {IndexOverride(i) : i \in ListIndexes}

InitList ==
    \E cyc \in CycleSets, s \in CopyStarts, e \in CopyEnds \cup {NoDate}, sbf \in BOOLEAN :
        Start(DateIntervalCycler(cyc, s, e, sbf))

\* next(), back() or reset() before the list is taken
Move ==
    /\ calls = 0
    /\ Next

\* tolist(start_override, end_override, from_current_position); ret is the list
ToList ==
    \E start_override \in StartOverrides, end_override \in EndOverrides,
       from_current_position \in BOOLEAN :
        LET r == tolist(cid, start_override, end_override, from_current_position, IterCap)
        IN /\ calls = 0
           /\ start_override[1] = "index" => start_override[2] < cid.len
           /\ end_override[1] = "index" => end_override[2] < cid.len
           /\ cid' = r.self
           /\ lastOp' = "tolist"
           /\ args' = <<start_override, end_override, from_current_position>>
           /\ ret' = r.list
           /\ raised' = r.raised
           /\ error' = r.error
           /\ prev' = Snap(cid)
           /\ phase' = "free"
           /\ fwd' = << >>
           /\ rev' = << >>
           /\ calls' = 1
           /\ UNCHANGED <<twin, alias>>

NextList == Move \/ ToList

SpecList == InitList /\ [][NextList]_vars

----------------------------------------------------------------------------
(* a freshly built cycler asked about a date *)

\* interval_from_date(date); ret is the interval
IntervalFromDate ==
    \E date \in Dates :
        /\ lastOp = "init"
        /\ cid.has_last_end_date
        /\ lastOp' = "interval_from_date"
        /\ args' = <<date>>
        /\ ret' = interval_from_date(cid, date, FALSE, FALSE)
        /\ prev' = Snap(cid)
        /\ UNCHANGED <<cid, raised, error, phase, fwd, rev, twin, alias, calls>>

\* index_from_date(date); ret is the index
IndexFromDate ==
    \E date \in Dates :
        LET r == index_from_date(cid, date)
        IN /\ lastOp = "init"
           /\ lastOp' = "index_from_date"
           /\ args' = <<date>>
           /\ ret' = IF r = IntRaise THEN 0 ELSE r
           /\ raised' = (r = IntRaise)
           /\ error' = IF r = IntRaise THEN "IndexError" ELSE ""
           /\ prev' = Snap(cid)
           /\ UNCHANGED <<cid, phase, fwd, rev, twin, alias, calls>>

NextLookup == IntervalFromDate \/ IndexFromDate

SpecLookup == Init /\ [][NextLookup]_vars

----------------------------------------------------------------------------
(* a bounded cycler moved by next / back / reset and then given a new start *)

RestartEnds == CopyEnds \cup {<<FirstYear, 3, 2>>}

RestartDates == ListStarts \cup {<<FirstYear, 1, 1>>, <<FirstYear + 1, 3, 1>>}

InitRestart ==
    \E cyc \in CycleSets, s \in CopyStarts, e \in RestartEnds, sbf \in BOOLEAN :
        Start(DateIntervalCycler(cyc, s, e, sbf))

\* set_first_interval_start(first_interval_start, start_before_first_interval)
Restart ==
    \E d \in RestartDates, sbf \in BOOLEAN :
        /\ calls = 0
        /\ cid' = set_first_interval_start(cid, d, sbf)
        /\ lastOp' = "set_first_interval_start"
        /\ args' = <<d, sbf>>
        /\ ret' = 0
        /\ raised' = FALSE
        /\ error' = ""
        /\ prev' = Snap(cid)
        /\ phase' = "free"
        /\ fwd' = << >>
        /\ rev' = << >>
        /\ calls' = 1
        /\ UNCHANGED <<twin, alias>>

NextRestart == Move \/ Restart

SpecRestart == InitRestart /\ [][NextRestart]_vars

----------------------------------------------------------------------------
(* a cycler moved by next / back / reset and then iterated with iter() *)

\* resumptions followed on a series with no end
MaxYields == 4

Suspended == {"single", "sbf", "loop"}

InitIter ==
    \E cyc \in CopyCycles, s \in CopyStarts, e \in CopyEnds \cup {NoDate}, sbf \in BOOLEAN :
        Start(DateIntervalCycler(cyc, s, e, sbf))

\* next(), back() or reset() before the generator is made
Wander ==
    /\ lastOp # "iter"
    /\ Next

\* what a resumption of the generator leaves: args is the generator's frame
\* and the value yielded, calls the number of values yielded so far
Resumed(reset_to_start, r) ==
    /\ cid' = r.self
    /\ lastOp' = "iter"
    /\ args' = <<reset_to_start, r.at, r.value>>
    /\ ret' = 0
    /\ raised' = (r.at = "raised")
    /\ error' = IF r.at = "raised" THEN "IndexError" ELSE ""
    /\ calls' = IF r.at \in Suspended THEN calls + 1 ELSE calls
    /\ phase' = "free"
    /\ fwd' = << >>
    /\ rev' = << >>
    /\ UNCHANGED <<twin, alias>>

\* g = cid.iter(reset_to_start); next(g)
IterBegin ==
    \E reset_to_start \in BOOLEAN :
        /\ lastOp # "iter"
        /\ prev' = Snap(cid)
        /\ Resumed(reset_to_start, iter_begin(cid, reset_to_start))

\* next(g) on the suspended generator
IterResume ==
    /\ lastOp = "iter"
    /\ args[2] \in Suspended
    /\ cid.has_last_end_date \/ calls < MaxYields
    /\ UNCHANGED prev
    /\ Resumed(args[1], iter_resume(cid, args[2]))

NextIter == Wander \/ IterBegin \/ IterResume

\* a for-loop resumes the generator until it returns
SpecIter == InitIter /\ [][NextIter]_vars /\ WF_vars(IterResume)

----------------------------------------------------------------------------
(* a cycler moved by next / back / reset and then flattened by totuple() *)

\* totuple(); ret is the tuple
ToTuple ==
    LET r == totuple(cid, IterCap)
    IN /\ calls = 0
       /\ cid' = r.self
       /\ lastOp' = "totuple"
       /\ args' = NoArgs
       /\ ret' = r.tuple
       /\ raised' = r.raised
       /\ error' = r.error
       /\ prev' = Snap(cid)
       /\ phase' = "free"
       /\ fwd' = << >>
       /\ rev' = << >>
       /\ calls' = 1
       /\ UNCHANGED <<twin, alias>>

NextTuple == Move \/ ToTuple

SpecTuple == Init /\ [][NextTuple]_vars

----------------------------------------------------------------------------
(* cyclers made by with_monthly and with_daily, read with next_get() *)

\* next_get() calls followed on a cycler
MaxGets == 6

ExampleStarts == {<<2020, 1, 1>>, <<2020, 1, 31>>, <<2020, 2, 28>>, <<2020, 12, 31>>}

InitExamples ==
    \E s \in ExampleStarts, sbf \in BOOLEAN :
        \/ Start(with_monthly(s, NoDate, sbf))
        \/ Start(with_daily(s, NoDate, sbf))

\* next_get(allowStopIteration)
NextGet ==
    \E allowStopIteration \in BOOLEAN :
        LET r == next_get(cid, allowStopIteration)
        IN /\ calls < MaxGets
           /\ cid' = r.self
           /\ lastOp' = "next_get"
           /\ args' = <<allowStopIteration>>
           /\ ret' = r.ret
           /\ raised' = r.raised
           /\ error' = r.error
           /\ prev' = Snap(cid)
           /\ phase' = "free"
           /\ fwd' = << >>
           /\ rev' = << >>
           /\ calls' = calls + 1
           /\ UNCHANGED <<twin, alias>>

SpecExamples == InitExamples /\ [][NextGet]_vars

----------------------------------------------------------------------------
(* a bounded cycler moved by next / back / reset and then sliced *)

SliceIndexes == -1..4

SliceSteps == {1, 2}

Slices ==
    {Slice(a, b) : a, b \in SliceIndexes}
    \cup {SliceStep(a, b, k) : a, b \in {0, 1}, k \in SliceSteps}

\* cid[start:stop] and cid[start:stop:step]; ret is the list
GetSlice ==
    \E ind \in Slices :
        LET r == getitem_slice(cid, ind, IterCap)
        IN /\ calls = 0
           /\ cid' = r.self
           /\ lastOp' = "getitem"
           /\ args' = <<ind>>
           /\ ret' = r.list
           /\ raised' = r.raised
           /\ error' = r.error
           /\ prev' = Snap(cid)
           /\ phase' = "free"
           /\ fwd' = << >>
           /\ rev' = << >>
           /\ calls' = 1
           /\ UNCHANGED <<twin, alias>>

NextSlice == Move \/ GetSlice

SpecSlice == InitRestart /\ [][NextSlice]_vars

----------------------------------------------------------------------------
(* a bounded cycler moved by next / back / reset while its bounds are changed *)

\* calls of the two setters followed
MaxSetterCalls == 2

\* set_first_interval_start(first_interval_start, start_before_first_interval)
MoveSetFirst ==
    \E d \in RestartDates, sbf \in BOOLEAN :
        /\ calls < MaxSetterCalls
        /\ cid' = set_first_interval_start(cid, d, sbf)
        /\ lastOp' = "set_first_interval_start"
        /\ args' = <<d, sbf>>
        /\ ret' = 0
        /\ raised' = FALSE
        /\ error' = ""
        /\ prev' = Snap(cid)
        /\ phase' = "free"
        /\ fwd' = << >>
        /\ rev' = << >>
        /\ calls' = calls + 1
        /\ UNCHANGED <<twin, alias>>

\* set_last_interval_end(last_interval_end); a raising call has already
\* stored the new end
MoveSetLast ==
    \E e \in RestartEnds \cup {NoDate} :
        LET r == set_last_interval_end(cid, e)
        IN /\ calls < MaxSetterCalls
           /\ cid' = r.self
           /\ lastOp' = "set_last_interval_end"
           /\ args' = <<e>>
           /\ ret' = 0
           /\ raised' = r.raised
           /\ error' = r.error
           /\ prev' = Snap(cid)
           /\ phase' = "free"
           /\ fwd' = << >>
           /\ rev' = << >>
           /\ calls' = calls + 1
           /\ UNCHANGED <<twin, alias>>

NextBounds == Next \/ MoveSetFirst \/ MoveSetLast

SpecBounds == InitRestart /\ [][NextBounds]_vars

----------------------------------------------------------------------------
(* a freshly built cycler asked for an interval, or for one end of it *)

\* interval_from_date(date, only_start, only_end); ret is what it returns
IntervalFromDatePick ==
    \E date \in Dates, only_start \in BOOLEAN, only_end \in BOOLEAN :
        /\ lastOp = "init"
        /\ cid.has_last_end_date
        /\ lastOp' = "interval_from_date"
        /\ args' = <<date, only_start, only_end>>
        /\ ret' = interval_from_date(cid, date, only_start, only_end)
        /\ prev' = Snap(cid)
        /\ UNCHANGED <<cid, raised, error, phase, fwd, rev, twin, alias, calls>>

\* index_to_interval(index, only_start, only_end); ret is what it returns
IndexToIntervalPick ==
    \E index \in 0..IndexCap, only_start \in BOOLEAN, only_end \in BOOLEAN :
        /\ lastOp = "init"
        /\ index < cid.len
        /\ lastOp' = "index_to_interval"
        /\ args' = <<index, only_start, only_end>>
        /\ ret' = index_to_interval(cid, index, only_start, only_end)
        /\ prev' = Snap(cid)
        /\ UNCHANGED <<cid, raised, error, phase, fwd, rev, twin, alias, calls>>

NextPick == IntervalFromDatePick \/ IndexToIntervalPick

SpecPick == Init /\ [][NextPick]_vars

----------------------------------------------------------------------------
(* what the traversal claims are measured against *)

Bounded == cid.has_last_end_date

\* the forward traversal has reached the last interval
TraversalDone == phase = "fwd" /\ cid.at_last_interval # 0

\* position of the cursor in the forward traversal
Position == Len(fwd) - 1

\* the documented boundary of cycle point md in year y: Feb 29 falls back to
\* Feb 28 in a non-leap year, and yields no boundary there when (2, 28) is a
\* cycle point as well
Boundary(cyc, y, md) ==
    IF md = FEB29 /\ ~is_leap(y)
    THEN (IF InSeq(cyc, FEB28) THEN NoDate ELSE <<y, 2, 28>>)
    ELSE <<y, md[1], md[2]>>

Boundaries(cyc, lo, hi) ==
    {Boundary(cyc, y, cyc[i]) : y \in lo..hi, i \in 1..Len(cyc)} \ {NoDate}

\* the earliest boundary strictly after date d
NextBoundary(cyc, d) ==
    LET after == {b \in Boundaries(cyc, d[1], d[1] + 1) : DateLT(d, b)}
    IN CHOOSE b \in after : \A c \in after : DateLE(b, c)

\* the end of the interval that starts at s: the next boundary, or the end of
\* the series when that comes first
ExpectedEnd(self, s) ==
    LET b == NextBoundary(self.cycles, s)
    IN IF self.has_last_end_date /\ DateLE(self.last_end_date, b) THEN self.last_end_date ELSE b

----------------------------------------------------------------------------
(* claims *)

\* C1: in a full forward traversal of a bounded series, the interval
\* (start, end) at position i has index_from_date(start) = i and
\* index_from_date(end) = i + 1.
C1_IndexFromDateRoundTrip ==
    (phase = "fwd" /\ Bounded) =>
        /\ index_from_date(cid, fwd[Len(fwd)][1]) = Position
        /\ index_from_date(cid, fwd[Len(fwd)][2]) = Position + 1

\* C2: in a full forward traversal of a bounded series, the interval at
\* position i is index_to_interval(i), also for the single interval of a
\* one-interval series and for the last interval.
C2_IndexToIntervalRoundTrip ==
    (phase = "fwd" /\ Bounded) =>
        index_to_interval(cid, Position, FALSE, FALSE) = fwd[Len(fwd)]

\* C3: size equals the number of intervals a full forward traversal from the
\* first interval produces.
C3_SizeIsTraversalLength ==
    (TraversalDone /\ Bounded) => cid.len = Len(fwd)

\* C4: a full forward traversal starts at first_interval_start, is gapless,
\* has only intervals with start < end, never passes last_interval_end and
\* ends exactly there.
C4_TraversalPartitionsSeries ==
    (phase = "fwd" /\ Bounded) =>
        /\ fwd[1][1] = cid.first_start_date
        /\ \A k \in 1..Len(fwd) :
              /\ DateLT(fwd[k][1], fwd[k][2])
              /\ DateLE(fwd[k][2], cid.last_end_date)
              /\ k > 1 => fwd[k][1] = fwd[k - 1][2]
        /\ TraversalDone => fwd[Len(fwd)][2] = cid.last_end_date

\* C5: next() then back() from a position that is neither the first nor the
\* last interval restores interval and index, and so does back() then next()
\* from a position that is not the first interval.
C5_Restores(s) == s.index = prev.index /\ s.interval = prev.interval

C5_NextBackSymmetry ==
    [][ /\ (lastOp = "next" /\ ~prev.at_first_interval /\ ~prev.at_last_interval /\ lastOp' = "back")
            => C5_Restores(Snap(cid'))
        /\ (lastOp = "back" /\ prev # NoSnap /\ ~prev.at_first_interval /\ lastOp' = "next")
            => C5_Restores(Snap(cid')) ]_vars

\* C6: back() from the last interval of a bounded series until the first
\* interval is reported retraces the forward traversal in reverse, the index
\* going down by one per step to 0.
C6_BackRetracesForward ==
    (phase = "rev" /\ Bounded) =>
        LET k == Len(rev)
        IN /\ k <= Len(fwd)
           /\ rev[k] = fwd[Len(fwd) - k + 1]
           /\ cid.ind = Len(fwd) - k
           /\ cid.at_first_interval # 0 <=> k = Len(fwd)

\* C7: with (2, 29) but not (2, 28) among the cycle points, the boundary of
\* that point is Feb 29 in a leap year and Feb 28 otherwise, one per year:
\* every interval the cursor exposes ends at the next such boundary (or at
\* last_interval_end), the forward traversal is gapless from
\* first_interval_start, and cycles {(2,29)} over 2019-01-01..2021-01-01 give
\* exactly (2019-01-01, 2019-02-28), (2019-02-28, 2020-02-29),
\* (2020-02-29, 2021-01-01).
C7_Applies == InSeq(cid.cycles, FEB29) /\ ~InSeq(cid.cycles, FEB28)

C7_Example ==
    /\ cid.cycles = <<FEB29>>
    /\ cid.first_start_date = <<2019, 1, 1>>
    /\ cid.last_end_date = <<2021, 1, 1>>
    /\ TraversalDone

C7_Feb29FallsBackToFeb28 ==
    C7_Applies =>
        /\ interval_end(cid) = ExpectedEnd(cid, interval_start(cid))
        /\ \/ interval_start(cid) = cid.first_start_date
           \/ interval_start(cid) \in Boundaries(cid.cycles, interval_start(cid)[1], interval_start(cid)[1])
        /\ phase = "fwd" =>
              /\ fwd[1][1] = cid.first_start_date
              /\ \A k \in 1..Len(fwd) :
                    /\ fwd[k][2] = ExpectedEnd(cid, fwd[k][1])
                    /\ k > 1 => fwd[k][1] = fwd[k - 1][2]
        /\ C7_Example =>
              fwd = << <<(<<2019, 1, 1>>), (<<2019, 2, 28>>)>>,
                       <<(<<2019, 2, 28>>), (<<2020, 2, 29>>)>>,
                       <<(<<2020, 2, 29>>), (<<2021, 1, 1>>)>> >>

\* a forward traversal that crossed a non-leap and a leap February
C7_Witness ==
    /\ C7_Applies
    /\ C7_Example
    /\ lastOp = "next"
    /\ Len(fwd) = 3

\* C8: with both (2, 28) and (2, 29) among the cycle points, next() and
\* back() expose in a non-leap year one interval that starts at Feb 28 and
\* ends at the next boundary after the skipped (2, 29) (or at
\* last_interval_end); (2, 29) makes no interval of its own there and the
\* cycle pointer never rests on it.
C8_IsDeadFeb28(d) == d[2] = 2 /\ d[3] = 28 /\ ~is_leap(d[1])

C8_Feb29SkippedInNonLeapYear ==
    (InSeq(cid.cycles, FEB28) /\ InSeq(cid.cycles, FEB29)) =>
        /\ ~on_dead_feb29(cid)
        /\ C8_IsDeadFeb28(interval_start(cid)) =>
              interval_end(cid) = ExpectedEnd(cid, interval_start(cid))
        /\ C8_IsDeadFeb28(interval_end(cid)) => DateLT(interval_start(cid), interval_end(cid))

\* C9: when last_interval_end is at or before the first boundary after
\* first_interval_start, the series is its single interval for good: size 1,
\* interval (first_interval_start, last_interval_end), index 0, first and
\* last at once, whatever next / back / reset calls were made and whatever
\* start_before_first_interval was.
C9_Applies ==
    /\ Bounded
    /\ DateLE(cid.last_end_date, NextBoundary(cid.cycles, cid.first_start_date))

C9_OneIntervalSeriesIsFixed ==
    C9_Applies =>
        /\ cid.len = 1
        /\ interval(cid) = <<cid.first_start_date, cid.last_end_date>>
        /\ cid.ind = 0
        /\ cid.at_first_interval # 0
        /\ cid.at_last_interval # 0

\* a one-interval series after a reset(True) that followed an overshooting call
C9_Witness ==
    /\ C9_Applies
    /\ lastOp = "reset"
    /\ prev.at_last_interval
    /\ cid.at_last_interval > 1
    /\ cid.at_first_interval > 1

\* C10: with_daily(start, end) traverses exactly (end - start).days
\* intervals, the k-th being (start + k days, start + k + 1 days).
C10_DailyMatchesOracle ==
    (phase = "fwd" /\ Bounded) =>
        /\ \A k \in 1..Len(fwd) :
              fwd[k] = <<AddDays(cid.first_start_date, k - 1), AddDays(cid.first_start_date, k)>>
        /\ DateLE(AddDays(cid.first_start_date, Len(fwd)), cid.last_end_date)
        /\ TraversalDone => AddDays(cid.first_start_date, Len(fwd)) = cid.last_end_date

\* C11: in every state a bounded series with more than one interval reaches by
\* next / back / reset, at_first_interval is true exactly when index = 0 and
\* at_last_interval is true exactly when index = size - 1.
C11_FlagsMatchIndex ==
    (Bounded /\ cid.len > 1) =>
        /\ cid.at_first_interval # 0 <=> cid.ind = 0
        /\ cid.at_last_interval # 0 <=> cid.ind = cid.len - 1

\* C12: at the last interval, non-strict next() calls made in a row since the
\* cursor arrived there return 1, 2, 3, ..., a strict next() raises
\* StopIteration, and neither changes index or interval; after any such calls
\* one back() moves the cursor to index size - 2.
C12_ArrivedAtLast ==
    /\ cid.at_last_interval # 0
    /\ \/ lastOp = "init"
       \/ lastOp = "next" /\ ~prev.at_last_interval

C12_OvershotNonStrict == lastOp = "next" /\ prev.at_last_interval /\ ~raised

C12_OvershootCountsAndBack ==
    [][ /\ (cid.at_last_interval # 0 /\ lastOp' = "next") =>
              /\ cid'.ind = cid.ind
              /\ interval(cid') = interval(cid)
              /\ (~raised' /\ C12_ArrivedAtLast) => ret' = 1
              /\ (~raised' /\ C12_OvershotNonStrict) => ret' = ret + 1
        /\ cid.at_last_interval # 0 =>
              /\ next(cid, TRUE).raised
              /\ ~next(cid, FALSE).raised
        /\ (cid.at_last_interval # 0 /\ cid.at_first_interval = 0 /\ lastOp' = "back") =>
              cid'.ind = cid.len - 2 ]_vars

\* C13: back() returns 0 exactly when it moved the cursor one index down; at
\* the first interval a non-strict back() returns a positive count, a strict
\* one raises StopIteration, and index and interval stay as they were.
C13_BackReturnsZeroIffMoved ==
    [][ /\ lastOp' = "back" => ((~raised' /\ ret' = 0) <=> cid'.ind = cid.ind - 1)
        /\ (lastOp' = "back" /\ cid.at_first_interval # 0) =>
              /\ cid'.ind = cid.ind
              /\ interval(cid') = interval(cid)
              /\ raised' \/ ret' > 0
        /\ cid.at_first_interval # 0 =>
              /\ back(cid, TRUE).raised
              /\ ~back(cid, FALSE).raised ]_vars

\* C14: on a series with more than one interval, after construction or reset
\* with start_before_first_interval the first next() returns 0 and leaves the
\* cursor on the first interval at index 0, and the second next() moves to
\* index 1; without it the first next() already moves to index 1, the second
\* interval.
C14_MoreThanOneInterval ==
    ~Bounded \/ DateLT(NextBoundary(cid.cycles, cid.first_start_date), cid.last_end_date)

C14_Fresh == lastOp \in {"init", "reset"} /\ C14_MoreThanOneInterval

\* the first next() of a start before the first interval has just been made
C14_AfterFirstOfTwo ==
    /\ C14_MoreThanOneInterval
    /\ lastOp = "next" /\ ret = 0 /\ ~raised
    /\ prev.index = 0 /\ cid.ind = 0

C14_MovesToSecond ==
    /\ ret' = 0 /\ ~raised'
    /\ cid'.ind = 1
    /\ interval(cid')[1] = interval(cid)[2]
    /\ DateLT(interval(cid')[1], interval(cid')[2])

C15_UnboundedNextAlwaysAdvances ==
    [][ ~Bounded =>
          /\ cid.len = MAX_INTERVAL
          /\ cid.at_last_interval = 0
          /\ lastOp' = "next" =>
                /\ ret' = 0 /\ ~raised'
                /\ cid'.ind = cid.ind + 1
                /\ cid'.at_last_interval = 0 ]_vars

\* C15, amended: the same, except that the one next() made while the cursor
\* is still before the first interval returns 0 without raising the index.
C15_UnboundedNextAdvancesOnceStarted ==
    [][ ~Bounded =>
          /\ cid.len = MAX_INTERVAL
          /\ cid.at_last_interval = 0
          /\ lastOp' = "next" =>
                /\ ret' = 0 /\ ~raised'
                /\ cid'.at_last_interval = 0
                /\ cid'.ind = IF cid.at_first_interval = -1 THEN cid.ind ELSE cid.ind + 1 ]_vars

\* next() has advanced an unbounded series past the first Feb 29 skipped
C15_Witness ==
    /\ ~Bounded
    /\ lastOp = "next"
    /\ cid.ind = 3
    /\ prev.index = 2

\* C16: construction raises ValueError when the cycle list is empty or holds
\* a point with month outside 1..12, day below 1 or day beyond the leap-year
\* length of its month; no other point, (2, 29) included, is refused: a list
\* of such points never fails the validation, and is constructed when it
\* holds no point twice.
C16_LeapLength(m) ==
    IF m = 2 THEN 29 ELSE IF m \in {4, 6, 9, 11} THEN 30 ELSE 31

C16_BadPoint(md) ==
    md[1] < 1 \/ md[1] > 12 \/ md[2] < 1 \/ md[2] > C16_LeapLength(md[1])

C16_Rejected(cyc) == Len(cyc) = 0 \/ \E i \in 1..Len(cyc) : C16_BadPoint(cyc[i])

C16_DatesInOrder ==
    args.last_interval_end = NoDate \/ DateLT(args.first_interval_start, args.last_interval_end)

C16_NoRepeats(cyc) == \A i, j \in 1..Len(cyc) : cyc[i] = cyc[j] => i = j

C16_CyclesValidated ==
    lastOp = "init" =>
        /\ C16_Rejected(args.cycles) => raised /\ error = "ValueError" /\ cid = NoObject
        /\ (~C16_Rejected(args.cycles) /\ C16_DatesInOrder) => error # "ValueError"
        /\ (~C16_Rejected(args.cycles) /\ C16_DatesInOrder /\ C16_NoRepeats(args.cycles)) =>
              ~raised /\ cid # NoObject

\* a list that holds (2, 29) was accepted
C16_Witness ==
    /\ lastOp = "init"
    /\ ~raised
    /\ \E i \in 1..Len(args.cycles) : args.cycles[i] = FEB29
    /\ cid.end_of_feb_check

\* C17: construction raises whenever last_interval_end is given and is not
\* strictly after first_interval_start: when it is before it, and when it
\* equals it.
C17_EndMustFollowStart ==
    (lastOp = "init" /\ args.last_interval_end # NoDate
                    /\ DateLE(args.last_interval_end, args.first_interval_start)) => raised

\* C18: every set_first_interval_start / set_last_interval_end call either
\* raises or leaves last_interval_end absent or strictly after
\* first_interval_start; a set_first_interval_start at or after the current
\* last_interval_end raises at that call.
C18_SettersKeepStartBeforeEnd ==
    [][ /\ lastOp' \in {"set_first_interval_start", "set_last_interval_end"} =>
              \/ raised'
              \/ cid'.last_end_date = NoDate
              \/ DateLT(cid'.first_start_date, cid'.last_end_date)
        /\ (lastOp' = "set_first_interval_start" /\ cid.last_end_date # NoDate
                /\ DateLE(cid.last_end_date, args'[1])) => raised' ]_vars

\* C19: construction does not depend on the order or the multiplicity of the
\* cycle points given: it succeeds or fails as it does for the ascending,
\* duplicate-free list, stores that list as cycles, has the same size, and
\* next() and back() then give the same results and intervals.  (The walk is
\* compared for lists that hold no point twice.)
C19_Same(a, b) ==
    /\ a.ret = b.ret
    /\ a.raised = b.raised
    /\ Snap(a.self) = Snap(b.self)

RECURSIVE C19_SameWalk(_, _, _, _)
C19_SameWalk(a, b, k, forward) ==
    IF k = 0 THEN (forward => C19_SameWalk(a, b, MaxCycles + 2, FALSE))
    ELSE LET ra == IF forward THEN next(a, FALSE) ELSE back(a, FALSE)
             rb == IF forward THEN next(b, FALSE) ELSE back(b, FALSE)
         IN C19_Same(ra, rb) /\ C19_SameWalk(ra.self, rb.self, k - 1, forward)

C19_OrderAndRepeatsIgnored ==
    (lastOp = "init" /\ ~C16_Rejected(args.cycles)) =>
        LET sorted == intervals_to_array(args.cycles)
            t      == DateIntervalCycler(sorted, args.first_interval_start,
                                         args.last_interval_end,
                                         args.start_before_first_interval)
        IN /\ raised = t.raised
           /\ ~raised =>
                 /\ cid.cycles = sorted
                 /\ cid.len = t.self.len
                 /\ Snap(cid) = Snap(t.self)
                 /\ C16_NoRepeats(args.cycles) =>
                       C19_SameWalk(cid, t.self, MaxCycles + 2, TRUE)

\* C20: after c = x.copy(), a call of next, back, reset,
\* set_first_interval_start or set_last_interval_end on c leaves the index,
\* interval, first/last flags, bounds and size of x as they were, and such a
\* call on x leaves those of c as they were.
C20_Seen(self) ==
    [index |-> self.ind,
     interval |-> interval(self),
     at_first_interval |-> self.at_first_interval # 0,
     at_last_interval |-> self.at_last_interval # 0,
     first_interval_start |-> self.first_start_date,
     last_interval_end |-> self.last_end_date,
     size |-> self.len]

C21_Exposed(self) ==
    [index |-> self.ind,
     interval |-> interval(self),
     size |-> self.len,
     first_interval_start |-> self.first_start_date,
     last_interval_end |-> self.last_end_date,
     at_first_interval |-> self.at_first_interval # 0,
     at_last_interval |-> self.at_last_interval # 0]

C21_CopyBehavesAlike ==
    twin # NoObject =>
        /\ C21_Exposed(twin) = C21_Exposed(cid)
        /\ args = <<ret, error>>

\* C22: tolist, with any combination of start_override, end_override and
\* from_current_position, leaves the cycler it is called on as it was: the same
\* index, interval, first/last flags, bounds and size.
C22_Seen(self) ==
    [index |-> self.ind,
     interval |-> interval(self),
     at_first_interval |-> self.at_first_interval # 0,
     at_last_interval |-> self.at_last_interval # 0,
     first_interval_start |-> self.first_start_date,
     last_interval_end |-> self.last_end_date,
     size |-> self.len]

C23_Unbounded == lastOp = "tolist" /\ ~cid.has_last_end_date

C23_UnboundedNeedsEndOverride ==
    C23_Unbounded =>
        /\ args[2] = NoOverride => raised /\ error = "ValueError"
        /\ args[2] # NoOverride => ~raised /\ Len(ret) <= IterCap

\* the start and the end of the list asked for
C23_Start ==
    IF args[1][1] = "date" THEN args[1][2]
    ELSE IF args[1][1] = "index" THEN index_to_interval(cid, args[1][2], FALSE, FALSE)[1]
    ELSE cid.first_start_date

C23_End ==
    IF args[2][1] = "date" THEN args[2][2]
    ELSE index_to_interval(cid, args[2][2], FALSE, FALSE)[2]

\* the same, with the end_override not before the start of the list; an
\* end_override before it fails with ValueError
C23_EndNotBeforeStart == args[2] # NoOverride /\ DateLE(C23_Start, C23_End)

C23_UnboundedNeedsValidEndOverride ==
    C23_Unbounded =>
        /\ args[2] = NoOverride => raised /\ error = "ValueError"
        /\ C23_EndNotBeforeStart => ~raised /\ Len(ret) >= 1 /\ Len(ret) <= IterCap
        /\ (args[2] # NoOverride /\ ~C23_EndNotBeforeStart) => raised /\ error = "ValueError"

C23_Witness ==
    /\ C23_Unbounded
    /\ args[2][1] = "date"
    /\ ~raised
    /\ Len(ret) > 2

\* C24: on a bounded series tolist(from_current_position=True) returns the
\* intervals from the cursor's current interval, inclusive, through the last
\* one (each starting where the one before ends, the last ending at
\* last_interval_end), in every state the cursor can be in and whether or not
\* the cycler was started before its first interval; and the first value that
\* iter() produces is the current interval.
C24_FromCurrent == lastOp = "tolist" /\ args = <<NoOverride, NoOverride, TRUE>> /\ Bounded

C24_ListStartsAtCurrentInterval ==
    /\ C24_FromCurrent =>
          /\ ~raised
          /\ Len(ret) >= 1
          /\ ret[1] = interval(cid)
          /\ ret[Len(ret)][2] = cid.last_end_date
          /\ \A i \in 1..(Len(ret) - 1) : ret[i + 1][1] = ret[i][2]
    /\ LET it == iter(cid, FALSE, 0)
       IN Len(it.list) >= 1 /\ it.list[1] = interval(cid)

\* C25: on a bounded series, for every date d with
\* first_interval_start <= d < last_interval_end, interval_from_date(d) is
\* index_to_interval(index_from_date(d)), and the interval (s, e) it returns
\* has s <= d < e.
C25_IntervalFromDateAgreesWithIndex ==
    (/\ lastOp = "interval_from_date"
     /\ DateLE(cid.first_start_date, args[1])
     /\ DateLT(args[1], cid.last_end_date)) =>
        /\ ret = index_to_interval(cid, index_from_date(cid, args[1]), FALSE, FALSE)
        /\ DateLE(ret[1], args[1])
        /\ DateLT(args[1], ret[2])

\* C26: index_from_date(d) is -1 exactly when d < first_interval_start, -2
\* exactly when the series is bounded and d > last_interval_end, 0 for every
\* d with first_interval_start <= d < first boundary, and a value in 1..size
\* otherwise.
C26_FirstBoundary == NextBoundary(cid.cycles, cid.first_start_date)

C26_IndexFromDateRanges ==
    lastOp = "index_from_date" =>
        LET d      == args[1]
            before == DateLT(d, cid.first_start_date)
            after  == cid.has_last_end_date /\ DateLT(cid.last_end_date, d)
            first  == DateLE(cid.first_start_date, d) /\ DateLT(d, C26_FirstBoundary)
        IN /\ ~raised
           /\ ret = -1 <=> before
           /\ ret = -2 <=> after
           /\ (first /\ ~after) => ret = 0
           /\ ~(before \/ after \/ first) => (1 <= ret /\ ret <= cid.len)

\* C27: on a series with more than one interval, reset() from any state that
\* next() and back() can reach (mid-series, the last interval, any number of
\* overshoots) gives index 0, the interval (first_interval_start, first
\* boundary), at_first_interval true and at_last_interval false; after
\* reset(True) the first next() stays at index 0 and the second reaches
\* index 1, after reset(False) the first next() reaches index 1.
C27_MoreThanOneInterval ==
    ~Bounded \/ DateLT(NextBoundary(cid.cycles, cid.first_start_date), cid.last_end_date)

C27_ResetReturnsToFirstInterval ==
    (lastOp = "reset" /\ C27_MoreThanOneInterval) =>
        LET n1 == next(cid, FALSE)
            n2 == next(n1.self, FALSE)
        IN /\ cid.ind = 0
           /\ interval(cid) = <<cid.first_start_date,
                                NextBoundary(cid.cycles, cid.first_start_date)>>
           /\ cid.at_first_interval # 0
           /\ cid.at_last_interval = 0
           /\ n1.ret = 0
           /\ IF cid.started_before_first_interval
              THEN n1.self.ind = 0 /\ n2.ret = 0 /\ n2.self.ind = 1
              ELSE n1.self.ind = 1

\* reset(True) made on a cursor that had overshot the last interval
C27_Witness ==
    /\ lastOp = "reset"
    /\ C27_MoreThanOneInterval
    /\ cid.started_before_first_interval
    /\ prev.at_last_interval
    /\ prev.index > 1

\* C28: from any state (the cursor at the last interval, or the series so far
\* a one-interval series, included), set_first_interval_start(d) with
\* d < last_interval_end leaves the cursor at index 0 of the series
\* (d, last_interval_end): at_last_interval is true only if that series has
\* exactly one interval, and iterating from there yields the intervals that a
\* cycler freshly constructed with start d yields.
C28_Fresh ==
    DateIntervalCycler(cid.cycles, args[1], cid.last_end_date, args[2]).self

C28_NewStartRestartsSeries ==
    (/\ lastOp = "set_first_interval_start"
     /\ Bounded
     /\ DateLT(args[1], cid.last_end_date)) =>
        /\ cid.ind = 0
        /\ interval(cid)[1] = args[1]
        /\ cid.at_last_interval # 0 =>
              DateLE(cid.last_end_date, NextBoundary(cid.cycles, args[1]))
        /\ iter(cid, FALSE, IterCap).list = iter(C28_Fresh, FALSE, IterCap).list

\* C29: after any sequence of set_first_interval_start / set_last_interval_end
\* calls on one cycler (sequences through a one-interval configuration
\* included), size equals the length of tolist() and the size of a cycler
\* freshly constructed with the final bounds.
C29_Fresh ==
    DateIntervalCycler(cid.cycles, cid.first_start_date, cid.last_end_date, FALSE)

C29_SizeFollowsBounds ==
    (/\ lastOp \in {"set_first_interval_start", "set_last_interval_end"}
     /\ ~raised
     /\ Bounded
     /\ DateLT(cid.first_start_date, cid.last_end_date)) =>
        /\ cid.len = Len(tolist(cid, NoOverride, NoOverride, FALSE, IterCap).list)
        /\ cid.len = C29_Fresh.self.len

\* C30: on every cycler the constructor accepts, no next(), back() or reset()
\* call raises anything but the StopIteration a strict call asks for, reading
\* index, interval, interval_start and interval_end after the call does not
\* raise, and the cycle pointer p handed to the date helpers stays within
\* 0..len(cycles).
C30_TraversalNeverFails ==
    lastOp \in {"next", "back", "reset"} =>
        /\ raised => error = "StopIteration"
        /\ ~IntervalRaises(cid)
        /\ cid.p \in 0..Len(cid.cycles)

\* C31: on a bounded series, iterating the cycler from any state that next(),
\* back() and reset() can reach ends after finitely many yields, and leaves
\* the cursor on the last interval with at_last_interval true; on a series
\* with no end the iteration never ends on its own.
C31_Running == lastOp = "iter" /\ args[2] \in Suspended

C31_Returned == lastOp = "iter" /\ args[2] = "returned"

C31_IterationEndsIffBounded ==
    /\ (C31_Running /\ Bounded) ~> C31_Returned
    /\ [](C31_Returned =>
            /\ Bounded
            /\ cid.at_last_interval # 0
            /\ interval(cid)[2] = cid.last_end_date)
    /\ []((lastOp = "iter" /\ ~Bounded) => C31_Running)

\* a generator made in mid-series that has yielded and returned
C31_Witness ==
    /\ C31_Returned
    /\ prev.index > 0
    /\ ~prev.at_last_interval
    /\ calls >= 1

\* C32: totuple() on a bounded cycler returns exactly size + 1 dates:
\* first_interval_start, then the end of every interval in order, the last
\* one being last_interval_end.
C32_TupleIsTheBoundaries ==
    (lastOp = "totuple" /\ Bounded) =>
        /\ ~raised
        /\ Len(ret) = cid.len + 1
        /\ ret[1] = cid.first_start_date
        /\ ret[Len(ret)] = cid.last_end_date
        /\ \A i \in 2..Len(ret) : ret[i] = ExpectedEnd(cid, ret[i - 1])

\* C33: for with_monthly(datetime(2020,1,1)) made with the default
\* start_before_first_interval, the first next_get() returns
\* (2020-01-01, 2020-02-01) and the second (2020-02-01, 2020-03-01); for
\* with_daily(datetime(2020,1,1)) the first returns (2020-01-01, 2020-01-02).
C33_DocumentedCase ==
    /\ lastOp = "next_get"
    /\ cid.first_start_date = <<2020, 1, 1>>
    /\ ~cid.started_before_first_interval

C33_ExamplesHold ==
    C33_DocumentedCase =>
        /\ (Len(cid.cycles) = 12 /\ calls = 1) => ret = <<<<2020, 1, 1>>, <<2020, 2, 1>>>>
        /\ (Len(cid.cycles) = 12 /\ calls = 2) => ret = <<<<2020, 2, 1>>, <<2020, 3, 1>>>>
        /\ (Len(cid.cycles) = 366 /\ calls = 1) => ret = <<<<2020, 1, 1>>, <<2020, 1, 2>>>>

\* C34: in a series with more than one interval the end of the first interval
\* is the earliest boundary strictly after first_interval_start: the first
\* cycle point of the start year whose date is after it ((2,29) in a non-leap
\* year counted as Feb 28 when (2,28) is no cycle point, and skipped when it
\* is), or cycle point 0 of the following year when there is none.
C34_FirstBoundary == NextBoundary(cid.cycles, cid.first_start_date)

C34_Defined ==
    /\ lastOp \in {"init", "set_first_interval_start"}
    /\ ~Bounded \/ DateLT(C34_FirstBoundary, cid.last_end_date)

C34_FirstIntervalEndsAtNextBoundary ==
    C34_Defined =>
        /\ cid.p0_date = C34_FirstBoundary
        /\ index_to_interval(cid, 0, FALSE, FALSE) = <<cid.first_start_date, C34_FirstBoundary>>
        /\ cid.p0 = Len(cid.cycles) <=> C34_FirstBoundary[1] = cid.first_start_date[1] + 1
        /\ lastOp = "init" => interval(cid)[2] = C34_FirstBoundary

\* a new start on a cycle point, after the last cycle point of its year that
\* has a date, so that the first interval ends in the following year
C34_Witness ==
    /\ C34_Defined
    /\ lastOp = "set_first_interval_start"
    /\ cid.p0 = Len(cid.cycles)
    /\ InSeq(cid.cycles, FEB29)
    /\ cid.first_start_date = <<FirstYear, 2, 28>>

\* C35: on a bounded series, for integers 0 <= a < b <= size, cid[a:b] is
\* exactly the b - a intervals with indices a..b-1, that is tolist()[a:b],
\* also for b = a + 1 and wherever the cursor is; a slice that carries a step
\* raises IndexError.
C35_SliceIsSubListOfToList ==
    (lastOp = "getitem" /\ Bounded) =>
        LET ind == args[1]
            all == tolist(cid, NoOverride, NoOverride, FALSE, IterCap).list
        IN /\ ind.has_step => (raised /\ error = "IndexError")
           /\ (~ind.has_step /\ 0 <= ind.start /\ ind.start < ind.stop /\ ind.stop <= cid.len) =>
                 /\ ~raised
                 /\ Len(ret) = ind.stop - ind.start
                 /\ ret = SubSeq(all, ind.start + 1, ind.stop)

\* C36: with from_current_position False, what tolist(start_override,
\* end_override) returns depends on the cycles, the bounds and the overrides
\* only: a cycler at any cursor position (first, middle or last interval, or
\* past either end) returns the list that a cycler freshly made from the same
\* cycles and bounds returns.
C36_Fresh ==
    DateIntervalCycler(cid.cycles, cid.first_start_date, cid.last_end_date, FALSE).self

C36_ListIgnoresCursor ==
    (lastOp = "tolist" /\ args[3] = FALSE) =>
        LET r == tolist(C36_Fresh, args[1], args[2], FALSE, IterCap)
        IN /\ raised = r.raised
           /\ error = r.error
           /\ ret = r.list

\* C37: for tolist(end_override=e) with e after the start of the list, every
\* interval (s, t) returned has s < t <= e and the last one ends exactly at
\* e; when e is at or before the first boundary after the start of the list,
\* exactly the one interval (start, e) is returned.
C37_Start ==
    IF args[1][1] = "date" THEN args[1][2]
    ELSE IF args[1][1] = "index" THEN index_to_interval(cid, args[1][2], TRUE, FALSE)
    ELSE IF args[3] THEN interval(cid)[1]
    ELSE cid.first_start_date

C37_End ==
    IF args[2][1] = "date" THEN args[2][2]
    ELSE index_to_interval(cid, args[2][2], FALSE, TRUE)

C37_EndOverrideClosesList ==
    (lastOp = "tolist" /\ args[2] # NoOverride /\ DateLT(C37_Start, C37_End)) =>
        /\ ~raised
        /\ Len(ret) >= 1
        /\ \A i \in 1..Len(ret) : DateLT(ret[i][1], ret[i][2]) /\ DateLE(ret[i][2], C37_End)
        /\ ret[Len(ret)][2] = C37_End
        /\ DateLE(C37_End, NextBoundary(cid.cycles, C37_Start)) => ret = <<<<C37_Start, C37_End>>>>

\* C38: in every state a bounded cycler reaches by next, back, reset,
\* set_first_interval_start and set_last_interval_end, the index lies in
\* 0..size-1 and first_interval_start <= interval_start < interval_end
\* <= last_interval_end.
C38_CursorStaysInsideBounds ==
    Bounded =>
        /\ ~IntervalRaises(cid)
        /\ cid.ind \in 0..(cid.len - 1)
        /\ DateLE(cid.first_start_date, interval_start(cid))
        /\ DateLT(interval_start(cid), interval_end(cid))
        /\ DateLE(interval_end(cid), cid.last_end_date)

\* C39: a set_last_interval_end(e) call that fails with ValueError (e before
\* first_interval_start) leaves last_interval_end, size and the cursor
\* (index, interval, flags) exactly as they were before the call.
C39_FailedSetLastChangesNothing ==
    [][(lastOp' = "set_last_interval_end" /\ raised' /\ error' = "ValueError") =>
          /\ cid'.last_end_date = cid.last_end_date
          /\ cid'.has_last_end_date = cid.has_last_end_date
          /\ cid'.len = cid.len
          /\ Snap(cid') = Snap(cid)
          /\ cid'.started_before_first_interval = cid.started_before_first_interval]_vars

\* C40: the only_start / only_end variants agree with the pair form: for a
\* date inside the series interval_from_date(d, only_start=True) is
\* interval_from_date(d)[0] and interval_from_date(d, only_end=True) is
\* interval_from_date(d)[1], and the same holds for index_to_interval at
\* every index in 0..size-1.
C40_InRange ==
    \/ lastOp = "index_to_interval"
    \/ /\ lastOp = "interval_from_date"
       /\ DateLE(cid.first_start_date, args[1]) /\ DateLE(args[1], cid.last_end_date)

C40_Pair ==
    IF lastOp = "index_to_interval" THEN index_to_interval(cid, args[1], FALSE, FALSE)
    ELSE interval_from_date(cid, args[1], FALSE, FALSE)

C40_OneEndAgreesWithPair ==
    (C40_InRange /\ args[2] # args[3]) =>
        ret = IF args[2] THEN C40_Pair[1] ELSE C40_Pair[2]

====
